---- MODULE Spec2Model ----
(***************************************************************************)
(* A model of the price-agent repository: the candle request queue of     *)
(* HistoricalDataService, the multi-exchange price/funding aggregation,   *)
(* the TTL cache, the batch-refresh trigger and the path store with its   *)
(* calendar queries.  Every component has its own specification over the  *)
(* shared clock `now`; the variables of the other components stay at      *)
(* their initial values.                                                  *)
(***************************************************************************)
EXTENDS Integers, Sequences, FiniteSets, TLC

(***************************************************************************)
(* Bounds of the model.                                                    *)
(***************************************************************************)
\* Number of getCandles calls in one behaviour.
MaxCalls == 3
\* Clock value at construction: Date.now() is far larger than every delay,
\* TTL and cooldown of the program, so "now - 0" never falls below them.
Epoch == 1000000
\* How far the clock of the candle-queue specification advances past Epoch.
MaxElapsedHD == 22500
\* Number of CacheService.set calls in one behaviour, and how far the clock
\* of the cache specification advances past Epoch.
MaxCacheSets == 2
MaxElapsedCache == 75000
\* Number of batchUpdateData calls in one behaviour, how far the clock of
\* their specification advances, and the number of updateBatchCache calls.
MaxBatchCalls == 3
MaxElapsedBatch == 60000
MaxCacheBatchCalls == 2
\* Number of PathRAGTool.insert calls in one behaviour of the general
\* specification of the store.
MaxRagInserts == 3
\* Inserts in one behaviour that goes past maxHistorySize, and how many of
\* the first of them may go to the second path.
MaxCapInserts == 1003
MaxShortInserts == 2
\* storeHistoricalData calls, and candles per call.
MaxStores == 2
MaxCandles == 2
\* TradingMonitorJob: milliseconds a scan is followed for, milliseconds the
\* first attempts of a batch take at most, the analyses of a scan that give
\* a signal, and those that throw an error other than 429.
MaxElapsedScan == 18000
MaxAnalysisTime == 2000
MaxScanSignals == 2
MaxScanErrors == 1
\* TechnicalAnalysisUtil: candles in a history.
MaxHistory == 3
\* The mid-price cache: getCurrentPrice calls, and how far the clock goes.
MaxMidCalls == 3
MaxElapsedMids == 245000
\* calculateRSI: prices in a series, and the highest price.
MaxSeries == 5
MaxPrice == 4

VARIABLES
    now,                \* Date.now()
    \* ---- HistoricalDataService (historical-data.service.ts) ----
    requestQueue,       \* Seq of queued request closures (named by their call)
    isProcessingQueue,  \* BOOLEAN
    lastRequestTime,    \* ms
    promise,            \* call -> state of the promise getCandles returned
    result,             \* call -> value the promise resolved with
    closure,            \* call -> position of the queued closure
    fetch,              \* call -> position of fetchCandlesWithRetry
    loop,               \* call -> position of the processQueue() that call made
    hdHist,             \* history: what the service did (never read by it)
    \* ---- PriceDataService.fetchPriceData / FundingTool.fetchFundingRates ----
    aggPc,              \* "idle", "fetching", "done"
    aggReq,             \* [kind, symbol] of the aggregation in progress
    settled,            \* exchange -> what its promise settled with
    aggHttp,            \* history: exchange -> what the exchange answered
    aggResult,          \* the aggregate returned, or the error thrown
    \* ---- CacheService (cache.service.ts) ----
    priceCache,         \* key -> cached entry
    fundingCache,       \* key -> cached entry
    cacheRet,           \* history: the last get call, what it returned, the
                        \* last set of its key before it and the time since
    cacheHist,          \* history: kind -> key -> the last set call
    \* ---- CryptoSupervisor.batchUpdateData, CacheService.updateBatchCache ----
    isUpdating,         \* CryptoSupervisor.isUpdating
    lastBatchUpdate,    \* CryptoSupervisor.lastBatchUpdate
    supCall,            \* call -> position of that batchUpdateData call
    batchInProgress,    \* CacheService.batchInProgress
    cacheLastBatchUpdate, \* CacheService.lastBatchUpdate
    batchHist,          \* history: fetch rounds started, refreshes ended
    \* ---- PathRAGTool, RAGManagerService ----
    ragData,            \* PathRAGTool.data: key -> list of entries
    ragOut,             \* what the last search returned
    ragHist,            \* history: path -> the values inserted at it, in order
    \* ---- TradingAgentService.analyzeTradeOpportunity ----
    tradePc,            \* position of the call: "idle", "await", "done"
    tradeStyle,         \* the style argument ("" when none is given)
    tradeOut,           \* what the call returned, with the history of the run
    \* TradingMonitorJob (trading-monitor.job.ts)
    scanPc,             \* position of the scan: "idle", "batch", "delay",
                        \* "done", "aborted"
    monitoredCoins,     \* the symbols to scan
    scanI,              \* the loop index i
    coinSt,             \* per symbol: where its analyzeWithRetry call is
    opportunities,      \* the opportunities collected by the scan (the coin
                        \* of each)
    scanTimer,          \* when the inter-batch timer is due
    scanHist,           \* history: when each batch started and ended
    \* TechnicalAnalysisUtil (technical-analysis.util.ts)
    taOut,              \* the last call: function, input and outcome
    rsiOut,             \* the last calculateRSI call on a series of prices
    \* ---- the style evaluators of TradingAgentService, called alone ----
    styleOut,           \* the last evaluation: evaluator, inputs, analysis
    \* ---- the mid-price cache of TradingAgentService ----
    cachedPrices,       \* Map<string, number>, as a function on its keys
    lastPriceUpdate,    \* when the cache was last replaced
    priceCall,          \* getCurrentPrice calls: position, coin, return
    midsHist,           \* history: the 'allMids' requests issued
    \* ---- RAGManagerService.initializeData (price-prediction.service.ts) ----
    coinListReady,      \* CoinListService.isReady()
    isInitialized,
    initCall,           \* the chain of initializeData calls: position,
                        \* retryCount, when the retry timer is due
    initHist            \* history: when the readiness was checked, and
                        \* whether updateRAGData ran

hdVars == <<requestQueue, isProcessingQueue, lastRequestTime, promise, result,
            closure, fetch, loop, hdHist>>

aggVars == <<aggPc, aggReq, settled, aggHttp, aggResult>>

cacheVars == <<priceCache, fundingCache, cacheRet, cacheHist>>

batchVars == <<isUpdating, lastBatchUpdate, supCall, batchInProgress,
               cacheLastBatchUpdate, batchHist>>

ragVars == <<ragData, ragOut, ragHist>>

tradeVars == <<tradePc, tradeStyle, tradeOut>>

scanVars == <<scanPc, monitoredCoins, scanI, coinSt, opportunities, scanTimer,
              scanHist>>

taVars == <<taOut, rsiOut>>

styleVars == <<styleOut>>

midsVars == <<cachedPrices, lastPriceUpdate, priceCall, midsHist>>

initVars == <<coinListReady, isInitialized, initCall, initHist>>

tradingVars == <<tradeVars, scanVars, taVars, styleVars, midsVars, initVars>>

vars == <<now, hdVars, aggVars, cacheVars, batchVars, ragVars, tradingVars>>

(***************************************************************************)
(* HistoricalDataService                                                   *)
(***************************************************************************)
RATE_LIMIT_DELAY == 500
maxRetries == 1
retryDelay == 2000
timeout == 10000

Calls == 1..MaxCalls

\* Ways one HTTP attempt ends.  "malformed" is a 2xx answer whose body is not
\* an array: data.map throws inside the same try block.
Outcomes == {"ok", "error", "timeout", "malformed"}

\* CandleResponse bodies the exchange may answer with.
RawCandle == [t |-> 1, s |-> "BTC", i |-> "15m",
              o |-> "1", c |-> "2", h |-> "2", l |-> "1", v |-> "5"]
Payloads == {<< >>, <<RawCandle>>}

parseFloat(str) ==
    CASE str = "1" -> 1
      [] str = "2" -> 2
      [] str = "5" -> 5
      [] str = "0" -> 0
      [] OTHER -> 0

mapResponseToCandle(response) ==
    [timestamp |-> response.t,
     open   |-> parseFloat(response.o),
     high   |-> parseFloat(response.h),
     low    |-> parseFloat(response.l),
     close  |-> parseFloat(response.c),
     volume |-> parseFloat(response.v),
     symbol |-> response.s,
     interval |-> response.i]

MapCandles(data) == [k \in 1..Len(data) |-> mapResponseToCandle(data[k])]

NoFetch == [pc |-> "idle", retryCount |-> 0, issuedAt |-> 0, due |-> 0]
NoLoop  == [pc |-> "none", due |-> 0, cur |-> 0]
\* failAt: when the attempt now awaiting its retry failed (0: none awaits one);
\* okData: the body of the attempt that succeeded, if one did.
NoCallHist == [attempts |-> 0, failures |-> 0, failAt |-> 0,
               earlyRetry |-> FALSE, okData |-> {}]

\* The service's state as one record, so that the synchronous stretches of
\* code between two awaits compose as functions.
HDState ==
    [requestQueue |-> requestQueue, isProcessingQueue |-> isProcessingQueue,
     lastRequestTime |-> lastRequestTime, promise |-> promise,
     result |-> result, closure |-> closure, fetch |-> fetch, loop |-> loop,
     hist |-> hdHist]

HDSet(s) ==
    /\ requestQueue' = s.requestQueue
    /\ isProcessingQueue' = s.isProcessingQueue
    /\ lastRequestTime' = s.lastRequestTime
    /\ promise' = s.promise
    /\ result' = s.result
    /\ closure' = s.closure
    /\ fetch' = s.fetch
    /\ loop' = s.loop
    /\ hdHist' = s.hist

\* httpService.post(...) of attempt number rc+1 of call c is issued at time t.
IssueHttp(s, c, rc, t) ==
    [s EXCEPT
       !.fetch[c] = [pc |-> "http", retryCount |-> rc, issuedAt |-> t, due |-> 0],
       !.hist.call[c].attempts = @ + 1,
       !.hist.call[c].earlyRetry =
           @ \/ (rc > 0 /\ t - s.hist.call[c].failAt < retryDelay),
       !.hist.call[c].failAt = 0,
       !.hist.shortGap =
           @ \/ (s.hist.httpLast # 0 /\ t - s.hist.httpLast < RATE_LIMIT_DELAY),
       !.hist.httpLast = t]

\* resolve(value) inside the queued closure, which then returns.
ResolveCall(s, c, value) ==
    [s EXCEPT !.promise[c] = "resolved", !.result[c] = value,
              !.closure[c] = "returned",
              !.fetch[c] = [NoFetch EXCEPT !.pc = "done"]]

\* A closure without its catch block: the error leaves the closure.
OnFetchFailureRethrows(s, c) ==
    [s EXCEPT !.closure[c] = "threw", !.fetch[c] = [NoFetch EXCEPT !.pc = "done"]]

\* getCandles, catch block of the closure: the error fetchCandlesWithRetry
\* threw is logged and the promise resolves with [].
OnFetchFailure(s, c) == ResolveCall(s, c, << >>)

\* An off-by-one retry test.
ShouldRetryOnceMore(retryCount) == retryCount <= maxRetries

\* fetchCandlesWithRetry, the test of its catch block.
ShouldRetry(retryCount) == retryCount < maxRetries

\* processQueue, lines 54-58: shift the head and run it.  The closure runs
\* synchronously up to the await of its HTTP request.
StartRequest(s, l, t) ==
    IF Len(s.requestQueue) = 0
    THEN \* shift() gave undefined: the while test ends the loop
         [s EXCEPT !.isProcessingQueue = FALSE,
                   !.loop[l] = [NoLoop EXCEPT !.pc = "exited"]]
    ELSE LET c  == Head(s.requestQueue)
             s1 == [s EXCEPT !.requestQueue = Tail(@),
                             !.lastRequestTime = t,
                             !.closure[c] = "running",
                             !.loop[l] = [pc |-> "awaiting", due |-> 0, cur |-> c],
                             !.hist.started = Append(@, c)]
         IN  IssueHttp(s1, c, 0, t)

\* A loop that ends without its finally block: the flag stays set.
WhileCheckKeepsFlag(s, l, t) ==
    IF Len(s.requestQueue) = 0
    THEN [s EXCEPT !.loop[l] = [NoLoop EXCEPT !.pc = "exited"]]
    ELSE LET timeSinceLastRequest == t - s.lastRequestTime
         IN  IF timeSinceLastRequest < RATE_LIMIT_DELAY
             THEN [s EXCEPT !.loop[l] =
                      [pc |-> "waiting", cur |-> 0,
                       due |-> t + (RATE_LIMIT_DELAY - timeSinceLastRequest)]]
             ELSE StartRequest(s, l, t)

\* processQueue, lines 46-52 and 60-62: the while test, the spacing wait.
WhileCheck(s, l, t) ==
    IF Len(s.requestQueue) = 0
    THEN [s EXCEPT !.isProcessingQueue = FALSE,
                   !.loop[l] = [NoLoop EXCEPT !.pc = "exited"]]
    ELSE LET timeSinceLastRequest == t - s.lastRequestTime
         IN  IF timeSinceLastRequest < RATE_LIMIT_DELAY
             THEN [s EXCEPT !.loop[l] =
                      [pc |-> "waiting", cur |-> 0,
                       due |-> t + (RATE_LIMIT_DELAY - timeSinceLastRequest)]]
             ELSE StartRequest(s, l, t)

\* A guard that forgets the in-flight flag.
QueueGuardNoFlag(s) == Len(s.requestQueue) = 0

\* processQueue, line 42: the guard.
QueueGuard(s) == s.isProcessingQueue \/ Len(s.requestQueue) = 0

ProcessQueue(s, l, t) ==
    IF QueueGuard(s)
    THEN [s EXCEPT !.loop[l].pc = "returned"]
    ELSE WhileCheck([s EXCEPT !.isProcessingQueue = TRUE], l, t)

\* getCandles(symbol, interval, limit): calls are numbered in call order.
GetCandles(c) ==
    /\ promise[c] = "none"
    /\ \A d \in Calls : d < c => promise[d] # "none"
    /\ LET s1 == [HDState EXCEPT !.requestQueue = Append(@, c),
                                 !.promise[c] = "pending",
                                 !.closure[c] = "queued"]
       IN  HDSet(ProcessQueue(s1, c, now))
    /\ UNCHANGED <<now, aggVars, tradingVars, cacheVars, batchVars, ragVars>>

\* The setTimeout of the spacing wait fires (possibly late).
LoopTimerFires(l) ==
    /\ loop[l].pc = "waiting"
    /\ now >= loop[l].due
    /\ HDSet(StartRequest(HDState, l, now))
    /\ UNCHANGED <<now, aggVars, tradingVars, cacheVars, batchVars, ragVars>>

\* The HTTP request of call c ends.
HttpRespond(c, outcome, data) ==
    /\ fetch[c].pc = "http"
    /\ outcome = "timeout" => now - fetch[c].issuedAt >= timeout
    /\ outcome # "ok" => data = << >>
    /\ LET s == HDState IN
       IF outcome = "ok"
       THEN HDSet(ResolveCall([s EXCEPT !.hist.call[c].okData = {data}],
                              c, MapCandles(data)))
       ELSE LET s1 == [s EXCEPT !.hist.call[c].failures = @ + 1]
            IN  IF ShouldRetry(fetch[c].retryCount)
                THEN HDSet([s1 EXCEPT !.fetch[c].pc = "retryWait",
                                      !.fetch[c].issuedAt = 0,
                                      !.fetch[c].due = now + retryDelay,
                                      !.hist.call[c].failAt = now])
                ELSE HDSet(OnFetchFailure(s1, c))
    /\ UNCHANGED <<now, aggVars, tradingVars, cacheVars, batchVars, ragVars>>

\* The setTimeout(retryDelay) of the catch block fires: the recursive call.
RetryTimerFires(c) ==
    /\ fetch[c].pc = "retryWait"
    /\ now >= fetch[c].due
    /\ HDSet(IssueHttp(HDState, c, fetch[c].retryCount + 1, now))
    /\ UNCHANGED <<now, aggVars, tradingVars, cacheVars, batchVars, ragVars>>

\* `await request()` returns to the loop: the next while test, or the
\* finally block when the closure threw.
LoopResume(l) ==
    /\ loop[l].pc = "awaiting"
    /\ closure[loop[l].cur] \in {"returned", "threw"}
    /\ IF closure[loop[l].cur] = "returned"
       THEN HDSet(WhileCheck(HDState, l, now))
       ELSE HDSet([HDState EXCEPT !.isProcessingQueue = FALSE,
                                  !.loop[l] = [NoLoop EXCEPT !.pc = "failed"]])
    /\ UNCHANGED <<now, aggVars, tradingVars, cacheVars, batchVars, ragVars>>

\* Time passes.  The clock advances only while a delay the code measures is
\* still running (the spacing window, a spacing or retry timer, the HTTP
\* timeout): once all of them have run out, more elapsed time changes no
\* comparison the code makes.  Timers may still fire late.
HDSteps == {250, 2000, 10000}

TimeMatters(d) ==
    \/ /\ d = 250
       /\ \/ now - lastRequestTime < RATE_LIMIT_DELAY
          \/ \E l \in Calls : loop[l].pc = "waiting"
    \/ /\ d = 2000
       /\ \E c \in Calls : fetch[c].pc = "retryWait" /\ now < fetch[c].due
    \/ /\ d = 10000
       /\ \E c \in Calls :
              fetch[c].pc = "http" /\ now - fetch[c].issuedAt < timeout

TickHD(d) ==
    /\ TimeMatters(d)
    /\ now + d <= Epoch + MaxElapsedHD
    /\ now' = now + d
    /\ UNCHANGED <<hdVars, tradingVars, ragVars, aggVars, cacheVars, batchVars>>


(***************************************************************************)
(* Price / funding aggregation: PriceDataService.fetchPriceData and        *)
(* FundingTool.fetchFundingRates                                           *)
(***************************************************************************)
Symbols == {"BTC", "ETH"}

\* pricePromises / ratePromises, in the order of the array literal.
PriceExchanges == <<"Binance", "Bybit", "OKX", "Hyperliquid">>
FundingExchanges == <<"Binance", "Bybit", "OKX">>
ExchangesOf(kind) == IF kind = "price" THEN PriceExchanges ELSE FundingExchanges
AllExchanges == {PriceExchanges[k] : k \in 1..Len(PriceExchanges)}
SeqRange(seq) == {seq[k] : k \in 1..Len(seq)}

\* What one exchange answers: a quote ("ok", with the number as the exchange
\* writes it), an HTTP error or timeout ("error"), or a well-formed answer
\* that holds no quote for the symbol ("empty": an empty list, a missing key,
\* a non-zero retCode).
\* A price is positive; a funding rate may be zero.
ExchangeAnswers(kind) ==
    {[kind |-> "ok", raw |-> r] :
        r \in IF kind = "price" THEN {"1", "2"} ELSE {"0", "1", "2"}}
       \cup {[kind |-> "error", raw |-> ""], [kind |-> "empty", raw |-> ""]}
NoAnswer == [kind |-> "none", raw |-> ""]

Null == [st |-> "null", exchange |-> "", value |-> 0, timestamp |-> 0]
Pending == [st |-> "pending", exchange |-> "", value |-> 0, timestamp |-> 0]

\* getBinancePrice, getBybitPrice, getOKXPrice, getHyperliquidPrice: the quote,
\* or null when the request throws or (Hyperliquid) the price is missing.
GetExchangePrice(exchange, answer, t) ==
    IF answer.kind = "ok"
    THEN LET price == parseFloat(answer.raw)
         IN  IF exchange = "Hyperliquid" /\ price = 0
             THEN Null
             ELSE [st |-> "quote", exchange |-> exchange, value |-> price,
                   timestamp |-> t]
    ELSE Null

\* getBinanceFunding, getBybitFunding, getOKXFunding: the rate in percent.
GetExchangeFunding(exchange, answer, t) ==
    IF answer.kind = "ok"
    THEN [st |-> "quote", exchange |-> exchange,
          value |-> parseFloat(answer.raw) * 100, timestamp |-> t]
    ELSE Null

GetQuote(kind, exchange, answer, t) ==
    IF kind = "price" THEN GetExchangePrice(exchange, answer, t)
                      ELSE GetExchangeFunding(exchange, answer, t)

\* A filter that keeps every fulfilled result, null included.
IsValidFulfilledOnly(settledValue) == settledValue.st # "pending"

\* The filter of the settled results: fulfilled and not null.
IsValid(settledValue) == settledValue.st = "quote"

RECURSIVE FilterValid(_)
FilterValid(seq) ==
    IF seq = << >> THEN << >>
    ELSE IF IsValid(Head(seq)) THEN <<Head(seq)>> \o FilterValid(Tail(seq))
                               ELSE FilterValid(Tail(seq))

RECURSIVE SumValues(_)
SumValues(seq) ==
    IF seq = << >> THEN 0 ELSE Head(seq).value + SumValues(Tail(seq))

\* reduce(sum) / length.  The quotient is kept as the exact fraction num/den.
Average(valid) == [num |-> SumValues(valid), den |-> Len(valid)]

\* fetchPriceData / fetchFundingRates once Promise.allSettled has resolved.
Aggregate(kind, symbol, settledOf) ==
    LET exchanges == ExchangesOf(kind)
        all   == [k \in 1..Len(exchanges) |-> settledOf[exchanges[k]]]
        valid == FilterValid(all)
    IN  IF Len(valid) = 0
        THEN [status |-> "NoDataAvailable", symbol |-> symbol,
              quotes |-> << >>, average |-> [num |-> 0, den |-> 0]]
        ELSE [status |-> "ok", symbol |-> symbol, quotes |-> valid,
              average |-> Average(valid)]

NoAggregate == [status |-> "none", symbol |-> "", quotes |-> << >>,
                average |-> [num |-> 0, den |-> 0]]
NoRequest == [kind |-> "none", symbol |-> ""]

\* Start of fetchPriceData(symbol): the requests to all exchanges are sent.
FetchPriceData(symbol) ==
    /\ aggPc = "idle"
    /\ aggPc' = "fetching"
    /\ aggReq' = [kind |-> "price", symbol |-> symbol]
    /\ settled' = [e \in AllExchanges |-> Pending]
    /\ aggHttp' = [e \in AllExchanges |-> NoAnswer]
    /\ aggResult' = NoAggregate
    /\ UNCHANGED <<now, hdVars, tradingVars, ragVars, cacheVars, batchVars>>

\* Start of fetchFundingRates(symbol).
FetchFundingRates(symbol) ==
    /\ aggPc = "idle"
    /\ aggPc' = "fetching"
    /\ aggReq' = [kind |-> "funding", symbol |-> symbol]
    /\ settled' = [e \in AllExchanges |-> Pending]
    /\ aggHttp' = [e \in AllExchanges |-> NoAnswer]
    /\ aggResult' = NoAggregate
    /\ UNCHANGED <<now, hdVars, tradingVars, ragVars, cacheVars, batchVars>>

\* One exchange's request ends, in any order with the others.
ExchangeSettles(e, answer) ==
    /\ aggPc = "fetching"
    /\ e \in SeqRange(ExchangesOf(aggReq.kind))
    /\ settled[e].st = "pending"
    /\ settled' = [settled EXCEPT ![e] = GetQuote(aggReq.kind, e, answer, now)]
    /\ aggHttp' = [aggHttp EXCEPT ![e] = answer]
    /\ UNCHANGED <<now, hdVars, tradingVars, ragVars, cacheVars, batchVars, aggPc, aggReq, aggResult>>

\* Promise.allSettled resolves and the rest of the function runs.
AllSettled ==
    /\ aggPc = "fetching"
    /\ \A e \in SeqRange(ExchangesOf(aggReq.kind)) : settled[e].st # "pending"
    /\ aggResult' = Aggregate(aggReq.kind, aggReq.symbol, settled)
    /\ aggPc' = "done"
    /\ UNCHANGED <<now, hdVars, tradingVars, ragVars, cacheVars, batchVars, aggReq, settled, aggHttp>>

\* The caller has its answer; the next refresh cycle may start.
NextCycle ==
    /\ aggPc = "done"
    /\ aggPc' = "idle"
    /\ UNCHANGED <<now, hdVars, tradingVars, ragVars, cacheVars, batchVars, aggReq, settled, aggHttp, aggResult>>

InitAgg ==
    /\ aggPc = "idle"
    /\ aggReq = NoRequest
    /\ settled = [e \in AllExchanges |-> Pending]
    /\ aggHttp = [e \in AllExchanges |-> NoAnswer]
    /\ aggResult = NoAggregate

NextAgg ==
    \/ \E sym \in Symbols : FetchPriceData(sym)
    \/ \E sym \in Symbols : FetchFundingRates(sym)
    \/ \E e \in AllExchanges, a \in ExchangeAnswers(aggReq.kind) :
           ExchangeSettles(e, a)
    \/ AllSettled
    \/ NextCycle


(***************************************************************************)
(* CacheService                                                            *)
(***************************************************************************)
PRICE_CACHE_TTL == 10000
FUNDING_CACHE_TTL == 60000

CacheKinds == {"price", "funding"}
\* Snapshots that can be cached (PriceData | FundingData), by number.
CacheData == {1, 2}
\* null, as get returns it.
NullData == 0

NoEntry == [present |-> FALSE, data |-> NullData, timestamp |-> 0]
\* before: what the key held when the value was set.
NoSet == [isSet |-> FALSE, data |-> NullData, at |-> 0, before |-> NullData]

TtlOf(type) == IF type = "price" THEN PRICE_CACHE_TTL ELSE FUNDING_CACHE_TTL

\* An expiry test that is already true at the TTL.
IsExpiredAtTtl(t, timestamp, ttl) == t - timestamp >= ttl

\* get, line 45.
IsExpired(t, timestamp, ttl) == t - timestamp > ttl

\* A set that keeps what the key already holds.
CacheSetIfAbsent(key, value, type) ==
    /\ cacheHist.sets < MaxCacheSets
    /\ LET entry == [present |-> TRUE, data |-> value, timestamp |-> now] IN
       /\ IF type = "price"
          THEN priceCache' = [priceCache EXCEPT
                                 ![key] = IF @.present THEN @ ELSE entry]
               /\ UNCHANGED fundingCache
          ELSE fundingCache' = [fundingCache EXCEPT
                                   ![key] = IF @.present THEN @ ELSE entry]
               /\ UNCHANGED priceCache
    /\ cacheHist' = [cacheHist EXCEPT
                        !.sets = @ + 1,
                        !.last[type][key] =
                            [isSet |-> TRUE, data |-> value, at |-> now,
                             before |-> IF type = "price"
                                        THEN priceCache[key].data
                                        ELSE fundingCache[key].data]]
    /\ UNCHANGED <<now, hdVars, tradingVars, ragVars, aggVars, batchVars, cacheRet>>

\* set(key, value, type)
CacheSet(key, value, type) ==
    /\ cacheHist.sets < MaxCacheSets
    /\ LET entry == [present |-> TRUE, data |-> value, timestamp |-> now] IN
       /\ IF type = "price"
          THEN priceCache' = [priceCache EXCEPT ![key] = entry]
               /\ UNCHANGED fundingCache
          ELSE fundingCache' = [fundingCache EXCEPT ![key] = entry]
               /\ UNCHANGED priceCache
    /\ cacheHist' = [cacheHist EXCEPT
                        !.sets = @ + 1,
                        !.last[type][key] =
                            [isSet |-> TRUE, data |-> value, at |-> now,
                             before |-> IF type = "price"
                                        THEN priceCache[key].data
                                        ELSE fundingCache[key].data]]
    /\ UNCHANGED <<now, hdVars, tradingVars, ragVars, aggVars, batchVars, cacheRet>>

\* get(key, type): the cached data, or null; an expired entry is deleted.
CacheGet(key, type) ==
    LET cache  == IF type = "price" THEN priceCache ELSE fundingCache
        ttl    == TtlOf(type)
        cached == cache[key]
        gone   == cached.present /\ IsExpired(now, cached.timestamp, ttl)
        after  == IF gone THEN [cache EXCEPT ![key] = NoEntry] ELSE cache
        ret    == IF ~cached.present \/ gone THEN NullData ELSE cached.data
    IN  /\ IF type = "price"
           THEN priceCache' = after /\ UNCHANGED fundingCache
           ELSE fundingCache' = after /\ UNCHANGED priceCache
        /\ cacheRet' = [op |-> "get", key |-> key, type |-> type,
                        value |-> ret,
                        wasSet |-> cacheHist.last[type][key].isSet,
                        setData |-> cacheHist.last[type][key].data,
                        elapsed |-> now - cacheHist.last[type][key].at]
        /\ UNCHANGED <<now, hdVars, tradingVars, ragVars, aggVars, batchVars, cacheHist>>

\* Time passes, as long as some value set is not yet older than its TTL plus
\* one step: past that, more elapsed time changes no answer of get.
CacheSteps == {10000, 50000}

SomeSetYoung ==
    \E t \in CacheKinds, k \in Symbols :
        /\ cacheHist.last[t][k].isSet
        /\ now - cacheHist.last[t][k].at <= TtlOf(t)

TickCache(d) ==
    /\ SomeSetYoung
    /\ now + d <= Epoch + MaxElapsedCache
    /\ now' = now + d
    /\ UNCHANGED <<hdVars, tradingVars, ragVars, aggVars, cacheVars, batchVars>>

InitCache ==
    /\ priceCache = [k \in Symbols |-> NoEntry]
    /\ fundingCache = [k \in Symbols |-> NoEntry]
    /\ cacheRet = [op |-> "none", key |-> "", type |-> "", value |-> NullData,
                   wasSet |-> FALSE, setData |-> NullData, elapsed |-> 0]
    /\ cacheHist = [sets |-> 0,
                    last |-> [t \in CacheKinds |-> [k \in Symbols |-> NoSet]]]

NextCache ==
    \/ \E k \in Symbols, v \in CacheData, t \in CacheKinds : CacheSet(k, v, t)
    \/ \E k \in Symbols, t \in CacheKinds : CacheGet(k, t)
    \/ \E d \in CacheSteps : TickCache(d)


(***************************************************************************)
(* The batch-refresh trigger: CryptoSupervisor.batchUpdateData and         *)
(* CacheService.updateBatchCache                                           *)
(***************************************************************************)
BATCH_SIZE == 10
BATCH_COOLDOWN == 30000
CACHE_BATCH_COOLDOWN == 30000

BatchCalls == 1..MaxBatchCalls
\* The symbols argument of batchUpdateData.
SymbolLists == {<< >>, <<"BTC">>, <<"BTC", "ETH">>}
\* The snapshot getPrices / getFundingRates return for a symbol.
FetchedData == 1

\* why: history, what refused a call that returned at the guard.
NoSupCall == [pc |-> "none", missing |-> << >>, i |-> 0, why |-> "none"]

\* A guard that forgets the cooldown.
SupGuardFlagOnly(t) == isUpdating

\* batchUpdateData, lines 157-160.
SupGuard(t) == isUpdating \/ t - lastBatchUpdate < BATCH_COOLDOWN

\* updateBatchCache, lines 55-58.
CacheBatchGuard(t) ==
    batchInProgress \/ t - cacheLastBatchUpdate < CACHE_BATCH_COOLDOWN

\* batchUpdateData(symbols), up to its first await: the guard, the flag.
BatchUpdateData(k, symbols) ==
    /\ supCall[k].pc = "none"
    /\ \A j \in BatchCalls : j < k => supCall[j].pc # "none"
    /\ IF SupGuard(now)
       THEN /\ supCall' = [supCall EXCEPT
                              ![k].pc = "noop",
                              ![k].why = IF isUpdating THEN "inFlight"
                                                       ELSE "cooldown"]
            /\ UNCHANGED isUpdating
       ELSE /\ isUpdating' = TRUE
            /\ supCall' = [supCall EXCEPT
                              ![k] = [NoSupCall EXCEPT !.pc = "gather",
                                                       !.missing = symbols]]
    /\ UNCHANGED <<now, hdVars, tradingVars, ragVars, aggVars, cacheVars, lastBatchUpdate,
                   batchInProgress, cacheLastBatchUpdate, batchHist>>

\* A batchUpdateData whose early return skips the finally block.
GatheredKeepsFlag(k, priceData, fundingData) ==
    /\ supCall[k].pc = "gather"
    /\ LET missingSymbols ==
               SelectSeq(supCall[k].missing,
                         LAMBDA sym : \/ sym \notin priceData
                                      \/ sym \notin fundingData)
       IN  IF Len(missingSymbols) = 0
           THEN /\ supCall' = [supCall EXCEPT ![k] = [NoSupCall EXCEPT !.pc = "returned"]]
                /\ UNCHANGED <<isUpdating, batchHist>>
           ELSE /\ supCall' = [supCall EXCEPT
                                  ![k] = [NoSupCall EXCEPT
                                             !.pc = "batch",
                                             !.missing = missingSymbols]]
                /\ batchHist' = [batchHist EXCEPT !.fetches = @ + 1]
                /\ UNCHANGED isUpdating
    /\ UNCHANGED <<now, hdVars, tradingVars, ragVars, aggVars, cacheVars, lastBatchUpdate,
                   batchInProgress, cacheLastBatchUpdate>>

\* Lines 168-182: getAllPrices / getAllFundingRates answer with the symbols
\* PriceTool.pricesMap and FundingTool.fundingRatesMap hold; the missing
\* symbols; the early return (through finally) when none is missing, else
\* the first batch.
Gathered(k, priceData, fundingData) ==
    /\ supCall[k].pc = "gather"
    /\ LET missingSymbols ==
               SelectSeq(supCall[k].missing,
                         LAMBDA sym : \/ sym \notin priceData
                                      \/ sym \notin fundingData)
       IN  IF Len(missingSymbols) = 0
           THEN /\ isUpdating' = FALSE
                /\ supCall' = [supCall EXCEPT ![k] = [NoSupCall EXCEPT !.pc = "returned"]]
                /\ UNCHANGED batchHist
           ELSE /\ supCall' = [supCall EXCEPT
                                  ![k] = [NoSupCall EXCEPT
                                             !.pc = "batch",
                                             !.missing = missingSymbols]]
                /\ batchHist' = [batchHist EXCEPT !.fetches = @ + 1]
                /\ UNCHANGED isUpdating
    /\ UNCHANGED <<now, hdVars, tradingVars, ragVars, aggVars, cacheVars, lastBatchUpdate,
                   batchInProgress, cacheLastBatchUpdate>>

\* cacheService.set(symbol, data, type) for every symbol of S.
PutAll(cache, S, t) ==
    [k \in Symbols |->
        IF k \in S THEN [present |-> TRUE, data |-> FetchedData, timestamp |-> t]
                   ELSE cache[k]]
NoteAll(last, S, t) ==
    [k \in Symbols |->
        IF k \in S THEN [isSet |-> TRUE, data |-> FetchedData, at |-> t]
                   ELSE last[k]]

\* Lines 185-196: batchUpdatePrices and batchUpdateFunding of one batch end;
\* okPrice / okFunding are the symbols whose fetch succeeded (a failure is
\* caught and logged).  Then the next batch, or lastBatchUpdate and finally.
BatchFetched(k, okPrice, okFunding) ==
    /\ supCall[k].pc = "batch"
    /\ LET missing == supCall[k].missing
           i     == supCall[k].i
           last  == IF i + BATCH_SIZE < Len(missing) THEN i + BATCH_SIZE
                                                     ELSE Len(missing)
           batch == {missing[x] : x \in (i + 1)..last}
       IN  /\ okPrice \subseteq batch
           /\ okFunding \subseteq batch
           /\ priceCache' = PutAll(priceCache, okPrice, now)
           /\ fundingCache' = PutAll(fundingCache, okFunding, now)
           /\ cacheHist' = [cacheHist EXCEPT
                  !.last.price = NoteAll(@, okPrice, now),
                  !.last.funding = NoteAll(@, okFunding, now)]
           /\ IF i + BATCH_SIZE < Len(missing)
              THEN /\ supCall' = [supCall EXCEPT ![k].i = i + BATCH_SIZE]
                   /\ batchHist' = [batchHist EXCEPT !.fetches = @ + 1]
                   /\ UNCHANGED <<isUpdating, lastBatchUpdate>>
              ELSE /\ lastBatchUpdate' = now
                   /\ isUpdating' = FALSE
                   /\ supCall' = [supCall EXCEPT
                                     ![k] = [NoSupCall EXCEPT !.pc = "done"]]
                   /\ batchHist' = [batchHist EXCEPT !.lastRefreshEnd = now]
    /\ UNCHANGED <<now, hdVars, tradingVars, ragVars, aggVars, cacheRet, batchInProgress,
                   cacheLastBatchUpdate>>

\* CacheService.updateBatchCache(): no await inside, so the whole body is one
\* step and batchInProgress is false again when it ends.
UpdateBatchCache ==
    /\ batchHist.cacheCalls < MaxCacheBatchCalls
    /\ IF CacheBatchGuard(now)
       THEN /\ UNCHANGED <<batchInProgress, cacheLastBatchUpdate>>
            /\ batchHist' = [batchHist EXCEPT !.cacheCalls = @ + 1,
                                              !.cacheNoops = @ + 1]
       ELSE /\ batchInProgress' = FALSE
            /\ cacheLastBatchUpdate' = now
            /\ batchHist' = [batchHist EXCEPT !.cacheCalls = @ + 1,
                                              !.lastCacheRefresh = now]
    /\ UNCHANGED <<now, hdVars, tradingVars, ragVars, aggVars, cacheVars, isUpdating, lastBatchUpdate,
                   supCall>>

BatchSteps == {15000, 30000}

\* The clock matters to the batch triggers only while a refresh is in flight
\* or a cooldown is running.
BatchTimeMatters ==
    \/ isUpdating
    \/ now - lastBatchUpdate < BATCH_COOLDOWN
    \/ now - cacheLastBatchUpdate < CACHE_BATCH_COOLDOWN

TickBatch(d) ==
    /\ BatchTimeMatters
    /\ now + d <= Epoch + MaxElapsedBatch
    /\ now' = now + d
    /\ UNCHANGED <<hdVars, tradingVars, ragVars, aggVars, cacheVars, batchVars>>

InitBatch ==
    /\ isUpdating = FALSE
    /\ lastBatchUpdate = 0
    /\ supCall = [k \in BatchCalls |-> NoSupCall]
    /\ batchInProgress = FALSE
    /\ cacheLastBatchUpdate = 0
    /\ batchHist = [fetches |-> 0, lastRefreshEnd |-> 0, cacheCalls |-> 0,
                    cacheNoops |-> 0, lastCacheRefresh |-> 0]

NextBatch ==
    \/ \E k \in BatchCalls, syms \in SymbolLists : BatchUpdateData(k, syms)
    \/ \E k \in BatchCalls, P \in SUBSET Symbols, F \in SUBSET Symbols :
           Gathered(k, P, F)
    \/ \E k \in BatchCalls, P \in SUBSET Symbols, F \in SUBSET Symbols :
           BatchFetched(k, P, F)
    \/ UpdateBatchCache
    \/ \E d \in BatchSteps : TickBatch(d)


(***************************************************************************)
(* PathRAGTool: insert, search, getKey, generateMetadata, calculateTrend,  *)
(* matchesQuery                                                            *)
(***************************************************************************)
maxHistorySize == 1000

\* The values of T the model inserts: numbers and price-data objects.
JSNumber(n) ==
    [type |-> "number", n |-> n, symbol |-> "", averagePrice |-> 0,
     highPrice |-> 0, lowPrice |-> 0, date |-> ""]
PriceObject(symbol, averagePrice, highPrice, lowPrice, date) ==
    [type |-> "object", n |-> 0, symbol |-> symbol,
     averagePrice |-> averagePrice, highPrice |-> highPrice,
     lowPrice |-> lowPrice, date |-> date]

\* Boolean(value), as Array.prototype.filter(Boolean) applies it.
Boolean(value) ==
    CASE value.type = "number" -> value.n # 0
      [] value.type = "object" -> TRUE
      [] OTHER -> FALSE

\* a || b on numbers.
Or(a, b) == IF a # 0 THEN a ELSE b

\* path.join('.')
RECURSIVE Join(_)
Join(path) ==
    IF Len(path) = 0 THEN ""
    ELSE IF Len(path) = 1 THEN path[1]
    ELSE path[1] \o "." \o Join(Tail(path))

getKey(path) == Join(path)

isPriceData(value) == value.type = "object"

\* changePct = ((last - prev) / prev) * 100 against 1 and -1, on the
\* non-negative integers the model uses; prev = 0 gives +-Infinity or NaN.
calculateTrend(prices) ==
    IF Len(prices) < 2 THEN "stable"
    ELSE LET last == prices[Len(prices)]
             prev == prices[Len(prices) - 1]
         IN  IF prev = 0
             THEN (IF last > 0 THEN "up" ELSE "stable")
             ELSE IF (last - prev) * 100 > prev THEN "up"
             ELSE IF (last - prev) * 100 < 0 - prev THEN "down"
             ELSE "stable"

NoMetadata == [trend |-> "none"]

\* The volatility and volume fields of the metadata are left out: no query
\* reads them.
generateMetadata(value, history) ==
    IF Len(history) = 0 THEN NoMetadata
    ELSE IF isPriceData(value)
    THEN [trend |-> calculateTrend(
                       [i \in 1..Len(history) |->
                           IF isPriceData(history[i].data)
                           THEN history[i].data.averagePrice ELSE 0])]
    ELSE NoMetadata

\* this.data.get(key) || []
DataGet(data, key) == IF key \in DOMAIN data THEN data[key] ELSE << >>

\* An eviction that drops the newest entry.
KeepLatestDropsNewest(historicalData) ==
    IF Len(historicalData) > maxHistorySize
    THEN SubSeq(historicalData, 1, Len(historicalData) - 1)
    ELSE historicalData

\* insert, lines 39-42: shift() once the list is longer than maxHistorySize.
KeepLatest(historicalData) ==
    IF Len(historicalData) > maxHistorySize
    THEN Tail(historicalData)
    ELSE historicalData

\* insert(path, value) at time t, as a function of the map.
Insert(data, path, value, t) ==
    LET key == getKey(path)
        historicalData == DataGet(data, key)
        pushed == Append(historicalData,
                         [data |-> value, timestamp |-> t,
                          metadata |-> generateMetadata(value, historicalData)])
    IN  [k \in DOMAIN data \cup {key} |->
            IF k = key THEN KeepLatest(pushed) ELSE data[k]]

NoQuery == [given |-> FALSE, timeRange |-> 0, trend |-> ""]
Queries == {NoQuery, [given |-> TRUE, timeRange |-> 0, trend |-> "up"]}

matchesQuery(entry, query, t) ==
    IF query.timeRange # 0 /\ t - entry.timestamp > query.timeRange THEN FALSE
    ELSE IF query.trend # "" /\ entry.metadata.trend # query.trend THEN FALSE
    ELSE TRUE

\* search, line 52: [historicalData[length - 1]?.data].filter(Boolean)
Latest(historicalData) ==
    IF Len(historicalData) = 0 THEN << >>
    ELSE SelectSeq(<<historicalData[Len(historicalData)].data>>, Boolean)

\* search(path, query) at time t.
Search(data, path, query, t) ==
    LET historicalData == DataGet(data, getKey(path))
    IN  IF ~query.given
        THEN Latest(historicalData)
        ELSE LET kept == SelectSeq(historicalData,
                                   LAMBDA entry : matchesQuery(entry, query, t))
             IN  [i \in 1..Len(kept) |-> kept[i].data]

\* History: the values inserted at each path (a sequence of segments).
NoteInsert(hist, path, value) ==
    [hist EXCEPT
        !.count = @ + 1,
        !.inserted = [q \in DOMAIN @ \cup {path} |->
                         IF q = path
                         THEN Append(IF path \in DOMAIN @ THEN @[path] ELSE << >>,
                                     value)
                         ELSE @[q]]]

\* Paths of the general specification: a parent and a child sequence, and two
\* sequences that differ only in where a '.' falls.
RagPaths == {<<"a">>, <<"a", "b">>, <<"a.b">>, <<"c">>}
RagValues == {JSNumber(0), JSNumber(1), PriceObject("BTC", 1, 0, 0, ""),
              PriceObject("BTC", 2, 0, 0, "")}

NoOut == [op |-> "none", path |-> << >>, query |-> NoQuery, symbol |-> "",
          year |-> 0, month |-> 0, priceType |-> "none", results |-> << >>,
          seen |-> 0]

RagInsert(path, value) ==
    /\ ragHist.count < MaxRagInserts
    /\ ragData' = Insert(ragData, path, value, now)
    /\ ragHist' = NoteInsert(ragHist, path, value)
    /\ UNCHANGED <<now, hdVars, tradingVars, aggVars, cacheVars, batchVars, ragOut>>

\* seen: history, the number of inserts made before this search.
RagSearch(path, query) ==
    /\ ragOut' = [NoOut EXCEPT !.op = "search", !.path = path, !.query = query,
                               !.results = Search(ragData, path, query, now),
                               !.seen = ragHist.count]
    /\ UNCHANGED <<now, hdVars, tradingVars, aggVars, cacheVars, batchVars, ragData, ragHist>>

\* Inserting past maxHistorySize: numbered values at one long path, the
\* first few of them possibly at a second path.
LongPath == <<"prices", "BTC">>
ShortPath == <<"prices", "ETH">>

CapInsert(path) ==
    /\ \/ path = LongPath /\ ragHist.count < MaxCapInserts
       \/ path = ShortPath /\ ragHist.count < MaxShortInserts
    /\ ragData' = Insert(ragData, path, JSNumber(ragHist.count + 1), now)
    /\ ragHist' = NoteInsert(ragHist, path, JSNumber(ragHist.count + 1))
    /\ UNCHANGED <<now, hdVars, tradingVars, aggVars, cacheVars, batchVars, ragOut>>

InitRag ==
    /\ ragData = << >>
    /\ ragOut = NoOut
    /\ ragHist = [count |-> 0, stores |-> 0, inserted |-> << >>]

NextRag ==
    \/ \E path \in RagPaths, value \in RagValues : RagInsert(path, value)
    \/ \E path \in RagPaths, query \in Queries : RagSearch(path, query)

NextRagCap == \E path \in {LongPath, ShortPath} : CapInsert(path)


(***************************************************************************)
(* RAGManagerService: storeHistoricalData, searchByMonth                   *)
(***************************************************************************)
\* Candle timestamps are carried in whole seconds, not milliseconds, to stay
\* within the integers of the checker.
SecondsPerDay == 86400

\* Days since 1970-01-01 of a calendar date, and back (the Date arithmetic
\* behind getUTCFullYear / getUTCMonth / getUTCDate and new Date(y, m, d)).
DaysFromCivil(year, month, day) ==
    LET y   == IF month <= 2 THEN year - 1 ELSE year
        era == y \div 400
        yoe == y - era * 400
        mp  == IF month > 2 THEN month - 3 ELSE month + 9
        doy == (153 * mp + 2) \div 5 + day - 1
        doe == yoe * 365 + yoe \div 4 - yoe \div 100 + doy
    IN  era * 146097 + doe - 719468

CivilFromDays(days) ==
    LET z   == days + 719468
        era == z \div 146097
        doe == z - era * 146097
        yoe == (doe - doe \div 1460 + doe \div 36524 - doe \div 146096) \div 365
        doy == doe - (365 * yoe + yoe \div 4 - yoe \div 100)
        mp  == (5 * doy + 2) \div 153
        d   == doy - (153 * mp + 2) \div 5 + 1
        m   == IF mp < 10 THEN mp + 3 ELSE mp - 9
    IN  [year |-> yoe + era * 400 + (IF m <= 2 THEN 1 ELSE 0),
         month |-> m, day |-> d]

\* new Date(timestamp), read through the UTC getters.
UTCDate(timestamp) == CivilFromDays(timestamp \div SecondsPerDay)

\* new Date(year, month, 0).getDate(): day 0 of the month after `month`
\* (1-based) is the last day of `month`.
DaysInMonth(year, month) ==
    CivilFromDays(DaysFromCivil(IF month = 12 THEN year + 1 ELSE year,
                                IF month = 12 THEN 1 ELSE month + 1, 1) - 1).day

\* n.toString().padStart(2, '0')
PadStart2(n) == IF n < 10 THEN "0" \o ToString(n) ELSE ToString(n)

toUpperCase(symbol) ==
    CASE symbol = "btc" -> "BTC"
      [] symbol = "eth" -> "ETH"
      [] OTHER -> symbol

DatePath(symbol, year, month, day) ==
    <<"historical", toUpperCase(symbol), ToString(year), PadStart2(month),
      PadStart2(day)>>

\* 2024-02-01 00:00, 2024-02-29 12:00 and 2024-03-01 00:00 UTC.
CandleStamps == {1706745600, 1709164800 + 43200, 1709251200}
\* <<close, high>>; a high of 0 is the falsy one.
CandlePrices == {<<1, 0>>, <<1, 3>>, <<3, 0>>}
Candles == {[timestamp |-> ts, close |-> p[1], high |-> p[2], low |-> 1] :
               ts \in CandleStamps, p \in CandlePrices}
StoreSymbols == {"btc"}

\* The TimeframedPriceData storeHistoricalData builds of a candle (its
\* prices and changes fields are left out: no search reads them).
CandlePriceData(symbol, candle) ==
    LET date == UTCDate(candle.timestamp)
    IN  PriceObject(symbol, candle.close, candle.high, candle.low,
                    ToString(date.year) \o "-" \o PadStart2(date.month)
                        \o "-" \o PadStart2(date.day))

CandlePath(symbol, candle) ==
    LET date == UTCDate(candle.timestamp)
    IN  DatePath(symbol, date.year, date.month, date.day)

\* The loop of storeHistoricalData over dailyCandles.
RECURSIVE StoreAll(_, _, _, _)
StoreAll(data, symbol, dailyCandles, t) ==
    IF Len(dailyCandles) = 0 THEN data
    ELSE StoreAll(Insert(data, CandlePath(symbol, Head(dailyCandles)),
                         CandlePriceData(symbol, Head(dailyCandles)), t),
                  symbol, Tail(dailyCandles), t)

RECURSIVE NoteAllStored(_, _, _)
NoteAllStored(hist, symbol, dailyCandles) ==
    IF Len(dailyCandles) = 0 THEN hist
    ELSE NoteAllStored(NoteInsert(hist, CandlePath(symbol, Head(dailyCandles)),
                                  CandlePriceData(symbol, Head(dailyCandles))),
                       symbol, Tail(dailyCandles))

StoreHistoricalData(symbol, dailyCandles) ==
    /\ ragHist.stores < MaxStores
    /\ ragData' = StoreAll(ragData, symbol, dailyCandles, now)
    /\ ragHist' = [NoteAllStored(ragHist, symbol, dailyCandles) EXCEPT
                      !.stores = @ + 1]
    /\ UNCHANGED <<now, hdVars, tradingVars, aggVars, cacheVars, batchVars, ragOut>>

\* The loop of searchByMonth over the days: results.push(...dailyPrices).
RECURSIVE MonthResults(_, _, _, _, _, _, _)
MonthResults(data, symbol, year, month, day, daysInMonth, t) ==
    IF day > daysInMonth THEN << >>
    ELSE Search(data, DatePath(symbol, year, month, day), NoQuery, t)
         \o MonthResults(data, symbol, year, month, day + 1, daysInMonth, t)

PriceOf(r, priceType) ==
    IF priceType = "highest" THEN Or(r.highPrice, r.averagePrice)
                             ELSE Or(r.lowPrice, r.averagePrice)

\* Math.max(...) / Math.min(...) of a non-empty list.
ExtremePrice(prices, priceType) ==
    IF priceType = "highest"
    THEN CHOOSE x \in {prices[i].price : i \in 1..Len(prices)} :
             \A i \in 1..Len(prices) : prices[i].price <= x
    ELSE CHOOSE x \in {prices[i].price : i \in 1..Len(prices)} :
             \A i \in 1..Len(prices) : prices[i].price >= x

\* A find that returns the last match.
FindLastPrice(prices, extremePrice) ==
    LET i == CHOOSE j \in 1..Len(prices) :
                 /\ prices[j].price = extremePrice
                 /\ \A h \in (j + 1)..Len(prices) : prices[h].price # extremePrice
    IN  prices[i].data

\* prices.find((p) => p.price === extremePrice)?.data: the first match.
FindPrice(prices, extremePrice) ==
    LET i == CHOOSE j \in 1..Len(prices) :
                 /\ prices[j].price = extremePrice
                 /\ \A h \in 1..(j - 1) : prices[h].price # extremePrice
    IN  prices[i].data

searchByMonth(data, symbol, year, month, priceType, t) ==
    LET results == MonthResults(data, symbol, year, month, 1,
                                DaysInMonth(year, month), t)
    IN  IF priceType # "none" /\ Len(results) > 0
        THEN LET prices == [i \in 1..Len(results) |->
                               [data |-> results[i],
                                price |-> PriceOf(results[i], priceType)]]
                 extremePrice == ExtremePrice(prices, priceType)
                 found == FindPrice(prices, extremePrice)
             IN  <<[found EXCEPT !.averagePrice = extremePrice]>>
        ELSE results

SearchMonths == {<<2024, 2>>, <<2024, 3>>}
SearchSymbols == {"BTC"}
PriceTypes == {"none", "highest", "lowest"}

SearchByMonth(symbol, year, month, priceType) ==
    /\ ragOut' = [NoOut EXCEPT
                     !.op = "searchByMonth", !.symbol = symbol, !.year = year,
                     !.month = month, !.priceType = priceType,
                     !.results = searchByMonth(ragData, symbol, year, month,
                                               priceType, now),
                     !.seen = ragHist.count]
    /\ UNCHANGED <<now, hdVars, tradingVars, aggVars, cacheVars, batchVars, ragData, ragHist>>

CandleLists == UNION {[1..n -> Candles] : n \in 1..MaxCandles}

NextMonth ==
    \/ \E symbol \in StoreSymbols, dailyCandles \in CandleLists :
           StoreHistoricalData(symbol, dailyCandles)
    \/ \E symbol \in SearchSymbols, ym \in SearchMonths, priceType \in PriceTypes :
           SearchByMonth(symbol, ym[1], ym[2], priceType)

\* Lines 248-262: results[0] || null, null carried as the empty list.
searchByDate(data, symbol, date, t) ==
    LET results == Search(data,
                          DatePath(symbol, UTCDate(date).year,
                                   UTCDate(date).month, UTCDate(date).day),
                          NoQuery, t)
    IN  IF Len(results) = 0 THEN << >> ELSE <<results[1]>>

SearchByDate(symbol, date) ==
    /\ ragOut' = [NoOut EXCEPT
                     !.op = "searchByDate", !.symbol = symbol,
                     !.path = DatePath(symbol, UTCDate(date).year,
                                       UTCDate(date).month, UTCDate(date).day),
                     !.results = searchByDate(ragData, symbol, date, now),
                     !.seen = ragHist.count]
    /\ UNCHANGED <<now, hdVars, tradingVars, aggVars, cacheVars, batchVars, ragData, ragHist>>

\* The daily candles of one refresh cycle: one candle a day.
DailyCandleLists ==
    {dailyCandles \in CandleLists :
        \A i, j \in DOMAIN dailyCandles :
            i # j => dailyCandles[i].timestamp # dailyCandles[j].timestamp}

\* Refresh cycles (each storing the daily candles) and searches by date.
NextDay ==
    \/ \E symbol \in StoreSymbols, dailyCandles \in DailyCandleLists :
           StoreHistoricalData(symbol, dailyCandles)
    \/ \E symbol \in SearchSymbols, date \in CandleStamps :
           SearchByDate(symbol, date)


(***************************************************************************)
(* TradingAgentService: the style evaluators and analyzeTradeOpportunity   *)
(*                                                                         *)
(* Prices are integers.  Values derived from them by square roots and      *)
(* divisions are carried in thousandths (Milli), rounded down; the prices  *)
(* of a signal in millionths (Micro).  A MarketCondition of the model      *)
(* holds the indicator values of a candle window and, of the candles, the  *)
(* closes the evaluators read: a constant run (base) and the last three.   *)
(***************************************************************************)
Milli == 1000
Micro == 1000000

\* NaN and undefined: every comparison with them is false.
NaN == 0 - 999999999
Lt(a, b) == a # NaN /\ b # NaN /\ a < b
Gt(a, b) == a # NaN /\ b # NaN /\ a > b

\* Math.sqrt, rounded down.
RECURSIVE SqrtBetween(_, _, _)
SqrtBetween(n, lo, hi) ==
    IF lo = hi THEN lo
    ELSE LET mid == (lo + hi + 1) \div 2
         IN  IF mid * mid <= n THEN SqrtBetween(n, mid, hi)
                               ELSE SqrtBetween(n, lo, mid - 1)
Sqrt(n) == SqrtBetween(n, 0, 46340)

Abs(x) == IF x < 0 THEN 0 - x ELSE x

RECURSIVE SumSeq(_)
SumSeq(xs) == IF Len(xs) = 0 THEN 0 ELSE Head(xs) + SumSeq(Tail(xs))

\* candles.map((c) => c.close).slice(-n), for 3 <= n <= market.len.
LastCloses(market, n) ==
    [i \in 1..n |-> IF i <= n - 3 THEN market.base ELSE market.tail[i - (n - 3)]]

\* prices[prices.length - 1] || 0
LastCloseOrZero(market) == IF market.len = 0 THEN 0 ELSE market.tail[3]

\* calculateBollingerBands(closes of the market, period, 2): upper, middle
\* and lower in Milli; bandwidth as the pair <<upper - lower, sma>>.  The
\* variance of the last `period` closes is sum((period * p - sum)^2) /
\* period^3; the periods in use (20, 50) divide 10^6 by their cubes.
calculateBollingerBands(market, period) ==
    IF market.len < period
    THEN [upper |-> LastCloseOrZero(market) * Milli,
          middle |-> LastCloseOrZero(market) * Milli,
          lower |-> LastCloseOrZero(market) * Milli,
          bandwidth |-> <<0, 1>>]
    ELSE LET closes == LastCloses(market, period)
             total  == SumSeq(closes)
             sq     == SumSeq([i \in 1..period |->
                                 (period * closes[i] - total)
                                     * (period * closes[i] - total)])
             standardDeviation ==
                 Sqrt(sq * (Micro \div (period * period * period)))
             sma    == (total * Milli) \div period
             upper  == sma + 2 * standardDeviation
             lower  == sma - 2 * standardDeviation
         IN  [upper |-> upper, middle |-> sma, lower |-> lower,
              bandwidth |-> <<upper - lower, sma>>]

\* ratio > percent / 100, false for 0 / 0.
RatioAbove(ratio, percent) ==
    ratio[2] # 0 /\ ratio[1] * 100 > percent * ratio[2]

\* supports.some((s) => Math.abs(s - currentPrice) / currentPrice < x), with
\* x in thousandths.
SomeNear(levels, currentPrice, thousandths) ==
    \E i \in 1..Len(levels) :
        Abs(levels[i] - currentPrice) * 1000 < thousandths * currentPrice

\* The running confidence, reasons and side of an evaluator; directions is
\* history: the sides of the checks that added confidence and set the side.
Start == [confidence |-> 0, reasons |-> << >>, side |-> "null",
          directions |-> {}]
\* An addition of twice the points.
AddTwice(st, points, reason, side) ==
    [confidence |-> st.confidence + 2 * points,
     reasons |-> Append(st.reasons, reason), side |-> side,
     directions |-> st.directions]

Add(st, points, reason, side) ==
    [confidence |-> st.confidence + points,
     reasons |-> Append(st.reasons, reason), side |-> side,
     directions |-> st.directions]
Directed(st, side) == [st EXCEPT !.directions = @ \cup {side}]

NoAnalysis == [style |-> "null", confidence |-> 0, reasons |-> << >>,
               side |-> "null", stopLoss |-> 0, takeProfit |-> 0,
               directions |-> {}]

\* The return of an evaluator: confidence >= 50 && side, else null.  The
\* stop-loss and take-profit factors are in Micro.
Analysis(style, st, currentPrice, stopLong, stopShort, takeLong, takeShort) ==
    IF st.confidence >= 50 /\ st.side # "null"
    THEN [style |-> style, confidence |-> st.confidence,
          reasons |-> st.reasons, side |-> st.side,
          directions |-> st.directions,
          stopLoss |-> currentPrice *
                          (IF st.side = "long" THEN stopLong ELSE stopShort),
          takeProfit |-> currentPrice *
                          (IF st.side = "long" THEN takeLong ELSE takeShort)]
    ELSE NoAnalysis

\* Math.min(0.002, bandwidth) in Micro.
StopDistance(bandwidth) ==
    IF bandwidth[1] * 500 >= bandwidth[2] THEN 2000
    ELSE (bandwidth[1] * Micro) \div bandwidth[2]

\* A check that adds `points` and sets the side when one of its two
\* conditions holds.
Check(st, long, short, points, reasonLong, reasonShort) ==
    IF long THEN Directed(Add(st, points, reasonLong, "long"), "long")
    ELSE IF short THEN Directed(Add(st, points, reasonShort, "short"), "short")
    ELSE st

\* A check that adds `points` and leaves the side as it is.
Bonus(st, cond, points, reason) ==
    IF cond THEN Add(st, points, reason, st.side) ELSE st

\* Lines 176-199: the last three closes rise (fall) strictly and
\* lastVolume3m > avgVolume3m * 1.2, the average over 10 candles.
ScalpingTrend(st, market3m) ==
    LET volumeSpike == /\ market3m.volume # NaN
                       /\ market3m.volume * 100 > market3m.sumVolume10 * 12
    IN  Check(st,
              /\ market3m.tail[2] > market3m.tail[1]
              /\ market3m.tail[3] > market3m.tail[2]
              /\ volumeSpike,
              /\ market3m.tail[2] < market3m.tail[1]
              /\ market3m.tail[3] < market3m.tail[2]
              /\ volumeSpike,
              20, "Strong 3m uptrend with volume",
              "Strong 3m downtrend with volume")

\* Lines 201-208.
ScalpingConfirm(st, market15m) ==
    Bonus(st, \/ st.side = "long" /\ market15m.trend = "bullish"
              \/ st.side = "short" /\ market15m.trend = "bearish",
          20, "Confirmed by 15m trend")

\* Lines 210-219.
ScalpingRsi(st, market3m, market15m) ==
    Check(st, Lt(market3m.rsi, 25) /\ Lt(market15m.rsi, 40),
          Gt(market3m.rsi, 75) /\ Gt(market15m.rsi, 60),
          15, "Oversold on both timeframes", "Overbought on both timeframes")

\* Lines 221-245.
ScalpingLevels(st, currentPrice, market3m, market15m) ==
    Check(st,
          /\ SomeNear(market3m.supports, currentPrice, 3)
          /\ market3m.macdHistogram > 0
          /\ market15m.trend = "bullish",
          /\ SomeNear(market3m.resistances, currentPrice, 3)
          /\ market3m.macdHistogram < 0
          /\ market15m.trend = "bearish",
          15, "Price at immediate support with bullish confirmation",
          "Price at immediate resistance with bearish confirmation")

\* Lines 247-256: Math.min(0.002, (bb3m.upper - bb3m.lower) / bb3m.middle).
ScalpingStop(bb3m) == StopDistance(<<bb3m.upper - bb3m.lower, bb3m.middle>>)

\* The factors of the two sides exchanged.
ScalpingAnalysisSwapped(st, currentPrice, stopDistance) ==
    Analysis("Scalping", st, currentPrice,
             Micro + stopDistance, Micro - stopDistance,
             Micro - stopDistance * 2, Micro + stopDistance * 2)

\* Lines 255-271.
ScalpingAnalysis(st, currentPrice, stopDistance) ==
    Analysis("Scalping", st, currentPrice,
             Micro - stopDistance, Micro + stopDistance,
             Micro + stopDistance * 2, Micro - stopDistance * 2)

analyzeScalping(currentPrice, market3m, market15m) ==
    ScalpingAnalysis(
        ScalpingLevels(
            ScalpingRsi(
                ScalpingConfirm(ScalpingTrend(Start, market3m), market15m),
                market3m, market15m),
            currentPrice, market3m, market15m),
        currentPrice,
        ScalpingStop(calculateBollingerBands(market3m, 20)))

\* Lines 284-302.
DayCloud(st, currentPrice, ichimoku) ==
    Check(st,
          /\ Gt(currentPrice, ichimoku.leadingSpanA)
          /\ Gt(currentPrice, ichimoku.leadingSpanB),
          /\ Lt(currentPrice, ichimoku.leadingSpanA)
          /\ Lt(currentPrice, ichimoku.leadingSpanB),
          15, "Price above Ichimoku Cloud - bullish",
          "Price below Ichimoku Cloud - bearish")

\* Lines 304-311.
DayBandwidth(st, bb) ==
    Bonus(st, RatioAbove(bb.bandwidth, 2), 10,
          "Good Bollinger Band width for day trading")

\* Lines 313-318.
DayTrend(st, market15m, market1h) ==
    Check(st,
          market15m.trend = market1h.trend /\ market15m.trend = "bullish",
          market15m.trend = market1h.trend /\ market15m.trend = "bearish",
          20, "Strong bullish trend on multiple timeframes",
          "Strong bearish trend on multiple timeframes")

\* Lines 320-329.
DayRsi(st, market15m, market1h) ==
    Check(st, Lt(market1h.rsi, 30) /\ Lt(market15m.rsi, 35),
          Gt(market1h.rsi, 70) /\ Gt(market15m.rsi, 65),
          15, "Oversold on multiple timeframes",
          "Overbought on multiple timeframes")

\* Lines 331-335.
DayVolatility(st, market15m, market1h) ==
    Bonus(st, market15m.volatility # "low" /\ market1h.volatility # "low",
          15, "Good intraday volatility")

analyzeDayTrading(currentPrice, market15m, market1h) ==
    Analysis("Day Trading",
             DayVolatility(
                 DayRsi(
                     DayTrend(
                         DayBandwidth(
                             DayCloud(Start, currentPrice, market1h.ichimoku),
                             calculateBollingerBands(market1h, 20)),
                         market15m, market1h),
                     market15m, market1h),
                 market15m, market1h),
             currentPrice, 990000, 1010000, 1030000, 970000)

\* Lines 361-377: cloudStrength = |A - B| / currentPrice > 0.02.
SwingCloud(st, currentPrice, ichimoku) ==
    LET strongCloud ==
            /\ ichimoku.leadingSpanA # NaN
            /\ ichimoku.leadingSpanB # NaN
            /\ Abs(ichimoku.leadingSpanA - ichimoku.leadingSpanB) * 100
                   > 2 * currentPrice
    IN  Check(st,
              strongCloud /\ ichimoku.leadingSpanA > ichimoku.leadingSpanB,
              strongCloud /\ ~(ichimoku.leadingSpanA > ichimoku.leadingSpanB),
              15, "Strong bullish Ichimoku Cloud",
              "Strong bearish Ichimoku Cloud")

\* Lines 379-387: trendStrength = (upper - lower) / middle > 0.04.
SwingBandwidth(st, bb) ==
    Bonus(st, RatioAbove(<<bb.upper - bb.lower, bb.middle>>, 4), 10,
          "Strong trend confirmed by Bollinger Band width")

\* Lines 389-394.
SwingTrend(st, market4h) ==
    Check(st, market4h.trend = "bullish", market4h.trend = "bearish",
          20, "Strong bullish trend on 4h", "Strong bearish trend on 4h")

\* Lines 396-412.
SwingLevels(st, currentPrice, market4h) ==
    Check(st,
          /\ SomeNear(market4h.supports, currentPrice, 20)
          /\ market4h.trend = "bullish",
          /\ SomeNear(market4h.resistances, currentPrice, 20)
          /\ market4h.trend = "bearish",
          20, "Price near support level", "Price near resistance level")

\* Lines 414-423; the momentum is carried in thousandths.
SwingMomentum(st, market1h, market4h) ==
    Check(st, Gt(market4h.momentum, 50) /\ Gt(market1h.momentum, 20),
          Lt(market4h.momentum, 0 - 50) /\ Lt(market1h.momentum, 0 - 20),
          15, "Strong positive momentum", "Strong negative momentum")

analyzeSwingTrading(currentPrice, market1h, market4h) ==
    Analysis("Swing Trading",
             SwingMomentum(
                 SwingLevels(
                     SwingTrend(
                         SwingBandwidth(
                             SwingCloud(Start, currentPrice, market4h.ichimoku),
                             calculateBollingerBands(market4h, 20)),
                         market4h),
                     currentPrice, market4h),
                 market1h, market4h),
             currentPrice, 950000, 1050000, 1150000, 850000)

\* Lines 448-465.
PositionCloud(st, currentPrice, ichimoku) ==
    Check(st,
          /\ Gt(currentPrice, ichimoku.leadingSpanA)
          /\ Gt(currentPrice, ichimoku.leadingSpanB)
          /\ Gt(ichimoku.conversionLine, ichimoku.baseLine),
          /\ Lt(currentPrice, ichimoku.leadingSpanA)
          /\ Lt(currentPrice, ichimoku.leadingSpanB)
          /\ Lt(ichimoku.conversionLine, ichimoku.baseLine),
          20, "Strong bullish Ichimoku setup", "Strong bearish Ichimoku setup")

\* Lines 467-478.
PositionBands(st, currentPrice, bb) ==
    Check(st, currentPrice * Milli > bb.upper /\ st.side = "long",
          currentPrice * Milli < bb.lower /\ st.side = "short",
          15, "Price above upper Bollinger Band - strong uptrend",
          "Price below lower Bollinger Band - strong downtrend")

\* Lines 480-484.
PositionLevels(st, market4h) ==
    Bonus(st, Len(market4h.supports) > 2 /\ Len(market4h.resistances) > 2,
          15, "Clear technical levels established")

\* Lines 486-500.
PositionDivergence(st, divergence) ==
    Check(st, divergence.bullish, divergence.bearish,
          20, "Bullish RSI divergence on 4h", "Bearish RSI divergence on 4h")

analyzePositionTrading(currentPrice, market4h) ==
    Analysis("Position Trading",
             PositionDivergence(
                 PositionLevels(
                     PositionBands(
                         PositionCloud(Start, currentPrice, market4h.ichimoku),
                         currentPrice, calculateBollingerBands(market4h, 50)),
                     market4h),
                 market4h.divergence),
             currentPrice, 900000, 1100000, 1300000, 700000)

\* analyses.sort((a, b) => b.confidence - a.confidence): stable, descending.
RECURSIVE InsertByConfidence(_, _)
InsertByConfidence(sorted, a) ==
    IF Len(sorted) = 0 THEN <<a>>
    ELSE IF Head(sorted).confidence >= a.confidence
    THEN <<Head(sorted)>> \o InsertByConfidence(Tail(sorted), a)
    ELSE <<a>> \o sorted

\* A sort that puts the lowest confidence first.
RECURSIVE SortByConfidenceAscending(_)
SortByConfidenceAscending(analyses) ==
    IF Len(analyses) = 0 THEN << >>
    ELSE LET rest == SortByConfidenceAscending(
                         SubSeq(analyses, 1, Len(analyses) - 1))
             a == analyses[Len(analyses)]
             before == SelectSeq(rest, LAMBDA x : x.confidence <= a.confidence)
             after == SelectSeq(rest, LAMBDA x : x.confidence > a.confidence)
         IN  before \o <<a>> \o after

RECURSIVE SortByConfidence(_)
SortByConfidence(analyses) ==
    IF Len(analyses) = 0 THEN << >>
    ELSE InsertByConfidence(
             SortByConfidence(SubSeq(analyses, 1, Len(analyses) - 1)),
             analyses[Len(analyses)])

analyzeAllStyles(currentPrice, market3m, market15m, market1h, market4h) ==
    SortByConfidence(
        SelectSeq(<<analyzeScalping(currentPrice, market3m, market15m),
                    analyzeDayTrading(currentPrice, market15m, market1h),
                    analyzeSwingTrading(currentPrice, market1h, market4h),
                    analyzePositionTrading(currentPrice, market4h)>>,
                  LAMBDA a : a # NoAnalysis))

\* calculateMarketCondition([]), and the values the TechnicalAnalysisUtil
\* functions give for no candles: the EMAs are 0 (neutral), the volatility
\* and the momentum NaN, the RSI undefined, the MACD zeros, one support and
\* one resistance at 0, the Ichimoku lines NaN, no divergence.
EmptyMarket ==
    [len |-> 0, base |-> 0, tail |-> <<0, 0, 0>>, volume |-> NaN,
     sumVolume10 |-> 0, trend |-> "neutral", volatility |-> "low",
     momentum |-> NaN, rsi |-> NaN, macdHistogram |-> 0,
     supports |-> <<0>>, resistances |-> <<0>>,
     ichimoku |-> [conversionLine |-> NaN, baseLine |-> NaN,
                   leadingSpanA |-> NaN, leadingSpanB |-> NaN],
     divergence |-> [bullish |-> FALSE, bearish |-> FALSE]]

\* Windows of `len` candles around a price of 1000: a slow rise to a new
\* high, a fast fall to a new low, and a flat market; the RSI is taken
\* separately.
RisingMarket(len, rsi) ==
    [len |-> len, base |-> 998, tail |-> <<998, 999, 1000>>, volume |-> 200,
     sumVolume10 |-> 1000, trend |-> "bullish", volatility |-> "medium",
     momentum |-> 60, rsi |-> rsi, macdHistogram |-> 1,
     supports |-> <<900, 950, 999>>, resistances |-> <<1100, 1150, 1200>>,
     ichimoku |-> [conversionLine |-> 980, baseLine |-> 960,
                   leadingSpanA |-> 970, leadingSpanB |-> 940],
     divergence |-> [bullish |-> FALSE, bearish |-> rsi < 80]]
FallingMarket(len, rsi) ==
    [len |-> len, base |-> 1060, tail |-> <<1060, 1030, 1000>>, volume |-> 200,
     sumVolume10 |-> 1000, trend |-> "bearish", volatility |-> "high",
     momentum |-> 0 - 60, rsi |-> rsi, macdHistogram |-> 0 - 1,
     supports |-> <<800, 850, 900>>, resistances |-> <<1001, 1050, 1100>>,
     ichimoku |-> [conversionLine |-> 1020, baseLine |-> 1040,
                   leadingSpanA |-> 1030, leadingSpanB |-> 1060],
     divergence |-> [bullish |-> rsi > 20, bearish |-> FALSE]]
FlatMarket(len, rsi) ==
    [len |-> len, base |-> 1000, tail |-> <<1000, 1000, 1000>>, volume |-> 100,
     sumVolume10 |-> 1000, trend |-> "neutral", volatility |-> "low",
     momentum |-> 0, rsi |-> rsi, macdHistogram |-> 0,
     supports |-> <<990>>, resistances |-> <<1010>>,
     ichimoku |-> [conversionLine |-> 1000, baseLine |-> 1000,
                   leadingSpanA |-> 1000, leadingSpanB |-> 1000],
     divergence |-> [bullish |-> FALSE, bearish |-> FALSE]]

RsiValues == {20, 80}
\* What a getCandles call resolves with: nothing (its fetch failed), 49
\* candles, or the 100 asked for.
Markets ==
    {EmptyMarket, RisingMarket(49, 20)}
        \cup {RisingMarket(100, rsi) : rsi \in RsiValues}
        \cup {FallingMarket(100, rsi) : rsi \in RsiValues}
        \cup {FlatMarket(100, rsi) : rsi \in RsiValues}

\* getCurrentPrice: null (carried as 0) or the price.
NoPrice == 0
Prices == {NoPrice, 1000}
Styles == {"Scalping", "Day Trading", "Swing Trading", "Position Trading"}

NoSignal == [coin |-> "", side |-> "null", size |-> 0, entryPrice |-> 0,
             stopLoss |-> 0, takeProfit |-> 0, confidence |-> 0,
             reason |-> << >>]

\* lens, price, rejected, ran (the evaluators that ran), results (what each
\* returned), selected: history of the run.
NoTradeOut ==
    [returned |-> "none", signal |-> NoSignal, lens |-> <<0, 0, 0, 0>>,
     price |-> NoPrice, rejected |-> FALSE, ran |-> {}, results |-> << >>,
     selected |-> NoAnalysis]

\* Line 530: !currentPrice || candles3m.length < 50
TradeGuard(currentPrice, candles3m) ==
    currentPrice = NoPrice \/ candles3m.len < 50

\* A threshold of 50.
MeetsLowerThreshold(confidence) == confidence >= 50

\* Line 589: styleAnalysis.confidence >= 60
MeetsThreshold(confidence) == confidence >= 60

\* Line 589: styleAnalysis && styleAnalysis.confidence >= 60
ShouldEmit(styleAnalysis) ==
    styleAnalysis # NoAnalysis /\ MeetsThreshold(styleAnalysis.confidence)

\* The switch of lines 543-574: the evaluator of a style on its windows.
Evaluate(style, currentPrice, market3m, market15m, market1h, market4h) ==
    CASE style = "Scalping" -> analyzeScalping(currentPrice, market3m, market15m)
      [] style = "Day Trading" ->
             analyzeDayTrading(currentPrice, market15m, market1h)
      [] style = "Swing Trading" ->
             analyzeSwingTrading(currentPrice, market1h, market4h)
      [] style = "Position Trading" ->
             analyzePositionTrading(currentPrice, market4h)

\* analyses[0], undefined for an empty list.
First(analyses) == IF Len(analyses) = 0 THEN NoAnalysis ELSE analyses[1]

\* Lines 539-587: the evaluator of the requested style, or the first of
\* analyzeAllStyles.
SelectAnalysis(style, currentPrice, market3m, market15m, market1h, market4h) ==
    IF style # ""
    THEN Evaluate(style, currentPrice, market3m, market15m, market1h, market4h)
    ELSE First(analyzeAllStyles(currentPrice, market3m, market15m, market1h,
                                market4h))

\* The signal of lines 590-603.
Signal(coin, currentPrice, styleAnalysis) ==
    [coin |-> coin, side |-> styleAnalysis.side, size |-> 1,
     entryPrice |-> currentPrice * Micro,
     stopLoss |-> styleAnalysis.stopLoss,
     takeProfit |-> styleAnalysis.takeProfit,
     confidence |-> styleAnalysis.confidence,
     reason |-> <<"Strategy: " \o styleAnalysis.style>>
                    \o styleAnalysis.reasons]

\* Lines 589-605.
Emit(out, coin, currentPrice, styleAnalysis) ==
    IF ShouldEmit(styleAnalysis)
    THEN [out EXCEPT !.returned = "signal", !.selected = styleAnalysis,
                     !.signal = Signal(coin, currentPrice, styleAnalysis)]
    ELSE [out EXCEPT !.selected = styleAnalysis]

\* Lines 520-605, after the await: what the try block gives ("raised" when
\* something in it throws).
TradeBody(coin, style, candles3m, candles15m, candles1h, candles4h, currentPrice, rejected) ==
    LET lens == <<candles3m.len, candles15m.len, candles1h.len, candles4h.len>>
        base == [NoTradeOut EXCEPT !.returned = "null", !.lens = lens,
                                   !.price = currentPrice,
                                   !.rejected = rejected]
    IN  IF rejected THEN [base EXCEPT !.returned = "raised"]
        ELSE IF TradeGuard(currentPrice, candles3m) THEN base
        ELSE LET ran == IF style = "" THEN Styles ELSE {style}
             IN  Emit([base EXCEPT
                          !.ran = ran,
                          !.results =
                              [st \in ran |->
                                  Evaluate(st, currentPrice, candles3m,
                                           candles15m, candles1h, candles4h)]],
                      coin, currentPrice,
                      SelectAnalysis(style, currentPrice, candles3m,
                                     candles15m, candles1h, candles4h))

\* No catch: the error leaves the function.
RethrowError(out) == out

\* Lines 606-612: catch (error) { log; return null }
CatchError(out) ==
    IF out.returned = "raised" THEN [out EXCEPT !.returned = "null"] ELSE out

\* Lines 516-613, after the await.
analyzeTradeOpportunity(coin, style, candles3m, candles15m, candles1h, candles4h, currentPrice, rejected) ==
    CatchError(TradeBody(coin, style, candles3m, candles15m, candles1h,
                         candles4h, currentPrice, rejected))

\* analyzeTradeOpportunity(coin, style) up to its await: the four getCandles
\* calls and getCurrentPrice are started.
AnalyzeTradeOpportunity(style) ==
    /\ tradePc = "idle"
    /\ tradePc' = "await"
    /\ tradeStyle' = style
    /\ UNCHANGED <<now, hdVars, aggVars, cacheVars, batchVars, ragVars, styleVars, midsVars, initVars, tradeOut, scanVars, taVars>>

\* Promise.all settles with the four windows and the price and the rest of
\* the function runs.
TradeSettled(candles3m, candles15m, candles1h, candles4h, currentPrice) ==
    /\ tradePc = "await"
    /\ tradePc' = "done"
    /\ tradeOut' = analyzeTradeOpportunity("BTC", tradeStyle, candles3m,
                                           candles15m, candles1h, candles4h,
                                           currentPrice, FALSE)
    /\ UNCHANGED <<now, hdVars, aggVars, cacheVars, batchVars, ragVars, styleVars, midsVars, initVars, tradeStyle, scanVars, taVars>>

\* An exception anywhere inside the try block (lines 520-605).
TradeThrew(candles, currentPrice) ==
    /\ tradePc = "await"
    /\ tradePc' = "done"
    /\ tradeOut' = analyzeTradeOpportunity("BTC", tradeStyle, candles, candles,
                                           candles, candles, currentPrice, TRUE)
    /\ UNCHANGED <<now, hdVars, aggVars, cacheVars, batchVars, ragVars, styleVars, midsVars, initVars, tradeStyle, scanVars, taVars>>

InitTrade ==
    /\ tradePc = "idle"
    /\ tradeStyle = ""
    /\ tradeOut = NoTradeOut

NextTrade ==
    \/ \E style \in Styles \cup {""} : AnalyzeTradeOpportunity(style)
    \/ \E candles3m \in Markets, candles15m \in Markets, candles1h \in Markets,
          candles4h \in Markets, currentPrice \in Prices :
           TradeSettled(candles3m, candles15m, candles1h, candles4h,
                        currentPrice)
    \/ \E candles \in Markets, currentPrice \in Prices :
           TradeThrew(candles, currentPrice)

\* ---------------------------------------------------------------------
\* TradingMonitorJob (src/hyperliquid/jobs/trading-monitor.job.ts)
\* ---------------------------------------------------------------------
MONITOR_BATCH_SIZE == 5
BATCH_DELAY == 2000
\* The defaults of analyzeWithRetry's maxRetries and delay.
analyzeMaxRetries == 3
analyzeDelay == 2000

CoinNames == <<"BTC", "ETH", "SOL", "AVAX", "ARB", "OP">>
CoinCounts == {0, 3, 5, 6}
ScanStep == 2000
\* What a call of analyzeTradeOpportunity does: returns a signal, returns
\* null, throws an error of status 429, throws another error.
AnalysisOutcomes == {"signal", "none", "429", "error"}
\* The positions of the symbols whose analyses meet 429s.
RateLimitedCoins == {2, 6}

\* monitoredCoins.slice(i, i + BATCH_SIZE), as positions 1..n.
BatchOf(i, n) == {c \in 1..n : i < c /\ c <= i + MONITOR_BATCH_SIZE}

\* The delay is skipped before the last batch too.
NoDelayBeforeLast(i, n) == i + 2 * MONITOR_BATCH_SIZE < n

\* Line 77: i + BATCH_SIZE < monitoredCoins.length
NeedsDelay(i, n) == i + MONITOR_BATCH_SIZE < n

\* analysed and failed are history: analyzeTradeOpportunity was called for
\* the symbol, and a call threw.
Waiting == [status |-> "waiting", attempt |-> 0, delay |-> 0, retryAt |-> 0,
            analysed |-> FALSE, failed |-> FALSE]

\* batch.map(async (coin) => ...) up to the await of line 103: every symbol
\* of the batch is in its first attempt.
StartBatch(st, i) ==
    [c \in DOMAIN st |->
        IF c \in BatchOf(i, Len(st))
        THEN [Waiting EXCEPT !.status = "inflight", !.attempt = 1,
                             !.delay = analyzeDelay, !.analysed = TRUE]
        ELSE st[c]]

\* analyzeWithRetry returns (its locals are gone).
Return(rec, status) ==
    [rec EXCEPT !.status = status, !.attempt = 0, !.delay = 0, !.retryAt = 0]

\* No catch in analyzeWithRetry: the error reaches Promise.all.
RethrowAnalysisError(rec, outcome, time) ==
    [Return(rec, "threw") EXCEPT !.failed = TRUE]

\* Lines 107-120: a 429 waits `delay` and doubles it, any other error is
\* logged and gives null.
CatchAnalysisError(rec, outcome, time) ==
    IF outcome = "429"
    THEN [rec EXCEPT !.status = "backoff", !.retryAt = time + rec.delay,
                     !.delay = rec.delay * 2, !.failed = TRUE]
    ELSE [Return(rec, "null") EXCEPT !.failed = TRUE]

\* Lines 102-120: one attempt of analyzeWithRetry settles.
OnOutcome(rec, outcome, time) ==
    CASE outcome = "signal" -> Return(rec, "signal")
      [] outcome = "none" -> Return(rec, "null")
      [] OTHER -> CatchAnalysisError(rec, outcome, time)

\* Lines 101 and 122-123 after the wait: the next attempt, or null after
\* maxRetries attempts.
NextAttempt(rec) ==
    IF rec.attempt + 1 <= analyzeMaxRetries
    THEN [rec EXCEPT !.status = "inflight", !.attempt = @ + 1]
    ELSE Return(rec, "null")

Finished(rec) == rec.status \in {"signal", "null"}

\* The loop of line 51 at index i: the next batch starts, or, past the end,
\* the summary is logged and the scan is over.
EnterLoop(i, st, hist) ==
    /\ scanI' = i
    /\ scanTimer' = 0
    /\ IF i < Len(st)
       THEN /\ scanPc' = "batch"
            /\ coinSt' = StartBatch(st, i)
            /\ scanHist' = [hist EXCEPT !.batchStart = Append(@, now)]
       ELSE /\ scanPc' = "done"
            /\ coinSt' = st
            /\ scanHist' = [hist EXCEPT !.doneAt = now]

\* What follows a symbol's callback: a rejection ends the scan in the catch
\* of line 90; when the whole batch is finished Promise.all resolves and
\* lines 77-80 run; otherwise the scan keeps waiting.
AfterCoin(st, hist) ==
    IF \E c \in BatchOf(scanI, Len(st)) : st[c].status = "threw"
    THEN /\ scanPc' = "aborted"
         /\ coinSt' = st
         /\ scanHist' = hist
         /\ UNCHANGED <<scanI, scanTimer>>
    ELSE IF \A c \in BatchOf(scanI, Len(st)) : Finished(st[c])
    THEN LET ended == [hist EXCEPT !.batchEnd = Append(@, now)]
         IN  IF NeedsDelay(scanI, Len(st))
             THEN /\ scanPc' = "delay"
                  /\ scanTimer' = now + BATCH_DELAY
                  /\ coinSt' = st
                  /\ scanHist' = ended
                  /\ UNCHANGED scanI
             ELSE EnterLoop(scanI + MONITOR_BATCH_SIZE, st, ended)
    ELSE /\ coinSt' = st
         /\ scanHist' = hist
         /\ UNCHANGED <<scanPc, scanI, scanTimer>>

NoScanHist == [batchStart |-> << >>, batchEnd |-> << >>, doneAt |-> 0,
               signals |-> 0, errors |-> 0]

\* monitorTradingOpportunities(style) up to its first await.
MonitorTradingOpportunities(n) ==
    /\ scanPc = "idle"
    /\ monitoredCoins' = SubSeq(CoinNames, 1, n)
    /\ opportunities' = << >>
    /\ EnterLoop(0, [c \in 1..n |-> Waiting], NoScanHist)
    /\ UNCHANGED <<now, hdVars, aggVars, cacheVars, batchVars, ragVars, styleVars, midsVars, initVars, tradeVars, taVars>>

\* The analyzeTradeOpportunity call of symbol c settles, and the rest of
\* the callback of lines 58-73 runs.
CoinSettles(c, outcome) ==
    /\ scanPc = "batch"
    /\ c \in DOMAIN coinSt
    /\ coinSt[c].status = "inflight"
    /\ outcome = "signal" => scanHist.signals < MaxScanSignals
    /\ outcome = "error" => scanHist.errors < MaxScanErrors
    /\ outcome = "429" => c \in RateLimitedCoins
    /\ opportunities' =
           IF outcome = "signal"
           THEN Append(opportunities, monitoredCoins[c])
           ELSE opportunities
    /\ AfterCoin([coinSt EXCEPT ![c] = OnOutcome(@, outcome, now)],
                 [scanHist EXCEPT
                     !.signals = IF outcome = "signal" THEN @ + 1 ELSE @,
                     !.errors = IF outcome = "error" THEN @ + 1 ELSE @])
    /\ UNCHANGED <<now, hdVars, aggVars, cacheVars, batchVars, ragVars, styleVars, midsVars, initVars, tradeVars,
                   taVars, monitoredCoins>>

\* The timer of line 114 fires.
BackoffFires(c) ==
    /\ scanPc = "batch"
    /\ c \in DOMAIN coinSt
    /\ coinSt[c].status = "backoff"
    /\ now >= coinSt[c].retryAt
    /\ AfterCoin([coinSt EXCEPT ![c] = NextAttempt(@)], scanHist)
    /\ UNCHANGED <<now, hdVars, aggVars, cacheVars, batchVars, ragVars, styleVars, midsVars, initVars, tradeVars,
                   taVars, monitoredCoins, opportunities>>

\* The timer of line 78 fires: i += BATCH_SIZE and the next batch starts.
DelayFires ==
    /\ scanPc = "delay"
    /\ now >= scanTimer
    /\ EnterLoop(scanI + MONITOR_BATCH_SIZE, coinSt, scanHist)
    /\ UNCHANGED <<now, hdVars, aggVars, cacheVars, batchVars, ragVars, styleVars, midsVars, initVars, tradeVars,
                   taVars, monitoredCoins, opportunities>>

\* Time passes: towards a pending timer, or while the first attempts of a
\* batch are running.
ScanTimeMatters ==
    \/ scanPc = "delay" /\ now < scanTimer
    \/ /\ scanPc = "batch"
       /\ \/ \E c \in DOMAIN coinSt :
                 coinSt[c].status = "backoff" /\ now < coinSt[c].retryAt
          \/ /\ \E c \in DOMAIN coinSt : coinSt[c].status = "inflight"
             /\ now - scanHist.batchStart[Len(scanHist.batchStart)]
                    < MaxAnalysisTime

TickScan ==
    /\ ScanTimeMatters
    /\ now + ScanStep <= Epoch + MaxElapsedScan
    /\ now' = now + ScanStep
    /\ UNCHANGED <<hdVars, aggVars, cacheVars, batchVars, ragVars, tradingVars>>

InitScan ==
    /\ scanPc = "idle"
    /\ monitoredCoins = << >>
    /\ scanI = 0
    /\ coinSt = << >>
    /\ opportunities = << >>
    /\ scanTimer = 0
    /\ scanHist = NoScanHist

NextScan ==
    \/ \E n \in CoinCounts : MonitorTradingOpportunities(n)
    \/ \E c \in 1..Len(CoinNames), outcome \in AnalysisOutcomes :
           CoinSettles(c, outcome)
    \/ \E c \in 1..Len(CoinNames) : BackoffFires(c)
    \/ DelayFires
    \/ TickScan

\* ---------------------------------------------------------------------
\* TechnicalAnalysisUtil (src/hyperliquid/utils/technical-analysis.util.ts)
\* on short histories.  The outcome of a call is "default" (the value of
\* the insufficient-history branch, carried in `value`), "computed" (the
\* main branch ran; the number is carried only where the claims need it)
\* or "raised".
\* ---------------------------------------------------------------------
CandleKinds ==
    {[close |-> 1, high |-> 2, low |-> 1, volume |-> 1],
     [close |-> 2, high |-> 3, low |-> 1, volume |-> 2],
     [close |-> 3, high |-> 3, low |-> 2, volume |-> 4]}
RECURSIVE SeqsUpTo(_, _)
SeqsUpTo(S, n) ==
    IF n = 0 THEN {<< >>}
    ELSE LET shorter == SeqsUpTo(S, n - 1)
         IN  shorter \cup {Append(q, x) : q \in {r \in shorter : Len(r) = n - 1},
                                          x \in S}
Histories == SeqsUpTo(CandleKinds, MaxHistory)

\* candles.map((c) => c.close) and the like.
Closes(candles) == [i \in 1..Len(candles) |-> candles[i].close]
Volumes(candles) == [i \in 1..Len(candles) |-> candles[i].volume]

\* prices[prices.length - 1] || 0
LastOrZero(prices) == IF Len(prices) = 0 THEN 0 ELSE prices[Len(prices)]

\* array.slice(-n)
SliceLast(xs, n) ==
    IF Len(xs) <= n THEN xs ELSE SubSeq(xs, Len(xs) - n + 1, Len(xs))

Default(value) == [kind |-> "default", value |-> value]
Computed(value) == [kind |-> "computed", value |-> value]
Raised == [kind |-> "raised", value |-> "TypeError"]

\* array.reduce((a, b) => a + b) with an initial value: the sum.
ReduceFrom(xs, initial) == Computed(initial + SumSeq(xs))

\* array.reduce((a, b) => a + b) without an initial value: a TypeError on
\* an empty array.
Reduce(xs) == IF Len(xs) = 0 THEN Raised ELSE Computed(SumSeq(xs))

\* Lines 35-46: gains and losses over the first `period` differences.
\* avgGain and avgLoss are carried as numerators over `scale`.
RECURSIVE InitialGainsAndLosses(_, _)
InitialGainsAndLosses(prices, i) ==
    IF i = 0 THEN [avgGain |-> 0, avgLoss |-> 0, scale |-> 1]
    ELSE LET difference == prices[i + 1] - prices[i]
             before == InitialGainsAndLosses(prices, i - 1)
         IN  IF difference >= 0
             THEN [before EXCEPT !.avgGain = @ + difference]
             ELSE [before EXCEPT !.avgLoss = @ - difference]

\* Lines 48-50: gains / period, losses / period.
InitialAverages(prices, period) ==
    [InitialGainsAndLosses(prices, period) EXCEPT !.scale = period]

\* Lines 54-61, Wilder's smoothing by one difference.
Smoothed(avg, period, difference) ==
    IF difference >= 0
    THEN [avgGain |-> avg.avgGain * (period - 1) + difference * avg.scale,
          avgLoss |-> avg.avgLoss * (period - 1),
          scale |-> avg.scale * period]
    ELSE [avgGain |-> avg.avgGain * (period - 1),
          avgLoss |-> avg.avgLoss * (period - 1) - difference * avg.scale,
          scale |-> avg.scale * period]

\* Lines 53-62: the differences from index period + 1 to the last.
RECURSIVE SmoothedUpTo(_, _, _)
SmoothedUpTo(prices, period, last) ==
    IF last <= period + 1 THEN InitialAverages(prices, period)
    ELSE Smoothed(SmoothedUpTo(prices, period, last - 1), period,
                  prices[last] - prices[last - 1])

\* Lines 64-65: rs = avgGain / avgLoss; 100 - 100 / (1 + rs), in whole
\* points rounded down.  x / 0 is Infinity and gives 100; 0 / 0 is NaN and
\* gives NaN.
RelativeStrengthIndex(avg) ==
    IF avg.avgLoss = 0
    THEN (IF avg.avgGain = 0 THEN NaN ELSE 100)
    ELSE (100 * avg.avgGain) \div (avg.avgGain + avg.avgLoss)

\* Lines 30-66.
calculateRSI(prices, period) ==
    IF Len(prices) < period + 1 THEN Default(50)
    ELSE Computed(RelativeStrengthIndex(
                      SmoothedUpTo(prices, period, Len(prices))))

\* Lines 95-109: the main branch starts with a reduce over the first
\* `period` prices.
calculateEMA(prices, period) ==
    IF Len(prices) < period THEN Default(LastOrZero(prices))
    ELSE IF Reduce(SubSeq(prices, 1, period)).kind = "raised" THEN Raised
    ELSE Computed("ema")

\* Lines 68-93.
calculateMACD(prices) ==
    IF Len(prices) < 26
    THEN Default([value |-> 0, signal |-> 0, histogram |-> 0])
    ELSE Computed("macd")

\* Lines 111-170: candles[candles.length - 1]?.close || 0, times 0.99 and
\* 1.01 (carried in hundredths).
findSupportResistance(candles) ==
    IF Len(candles) < 10
    THEN Default([supports |-> <<LastOrZero(Closes(candles)) * 99>>,
                  resistances |-> <<LastOrZero(Closes(candles)) * 101>>])
    ELSE Computed("levels")

\* Lines 172-199, the branch of a short history.
ShortBollingerBands(prices, period) ==
    IF Len(prices) < period
    THEN Default([upper |-> LastOrZero(prices), middle |-> LastOrZero(prices),
                  lower |-> LastOrZero(prices), bandwidth |-> 0])
    ELSE IF Reduce(SliceLast(prices, period)).kind = "raised" THEN Raised
    ELSE Computed("bands")

Max(S) == CHOOSE x \in S : \A y \in S : y <= x
Min(S) == CHOOSE x \in S : \A y \in S : x <= y
Range(xs) == {xs[i] : i \in 1..Len(xs)}

\* Lines 230-238: (Math.max(...highs) + Math.min(...lows)) / 2 over the last
\* `period` candles, doubled; -Infinity + Infinity is NaN for no candles.
calculateIchimokuLine(candles, period) ==
    IF Len(candles) = 0 THEN NaN
    ELSE Max({c.high : c \in Range(SliceLast(candles, period))})
             + Min({c.low : c \in Range(SliceLast(candles, period))})

\* Lines 201-228 (the lines doubled, leadingSpanA times four).
calculateIchimokuCloud(candles) ==
    Computed([leadingSpanA |->
                  IF Len(candles) = 0 THEN NaN
                  ELSE calculateIchimokuLine(candles, 9)
                           + calculateIchimokuLine(candles, 26),
              leadingSpanB |-> calculateIchimokuLine(candles, 52),
              conversionLine |-> calculateIchimokuLine(candles, 9),
              baseLine |-> calculateIchimokuLine(candles, 26)])

\* Lines 240-265: on no prices every comparison is with undefined, false.
detectDivergence(prices, rsi, lookback) ==
    IF Len(prices) = 0 \/ Len(rsi) = 0
    THEN Computed([bullish |-> FALSE, bearish |-> FALSE])
    ELSE Computed(
             [bullish |->
                  /\ prices[Len(prices)] <= Min(Range(SliceLast(prices, lookback)))
                  /\ rsi[Len(rsi)] > Min(Range(SliceLast(rsi, lookback))),
              bearish |->
                  /\ prices[Len(prices)] >= Max(Range(SliceLast(prices, lookback)))
                  /\ rsi[Len(rsi)] < Max(Range(SliceLast(rsi, lookback)))])

\* A reduce that starts from 0.
VolumeSum(recentVolumes) == ReduceFrom(recentVolumes, 0)

\* Line 273: recentVolumes.reduce((a, b) => a + b)
VolumeReduce(recentVolumes) == Reduce(recentVolumes)

\* Lines 267-279: volumeSMA = sum / period; current > SMA * 1.5 increasing,
\* current < SMA * 0.5 decreasing.
detectVolumeTrend(candles, period) ==
    LET volumes == Volumes(candles)
        total == VolumeReduce(SliceLast(volumes, period))
    IN  IF total.kind = "raised" THEN Raised
        ELSE IF volumes[Len(volumes)] * period * 2 > total.value * 3
        THEN Computed("increasing")
        ELSE IF volumes[Len(volumes)] * period * 2 < total.value
        THEN Computed("decreasing")
        ELSE Computed("neutral")

\* The RSI of each prefix, as calculateMarketCondition hands it to
\* detectDivergence (trading-agent.service.ts:89-92).
RsiValuesOf(prices) ==
    [i \in 1..Len(prices) |-> calculateRSI(SubSeq(prices, 1, i), 14).value]

NoTaOut == [fn |-> "none", candles |-> << >>, kind |-> "none", value |-> 0]

Called(fn, candles, outcome) ==
    /\ taOut' = [fn |-> fn, candles |-> candles, kind |-> outcome.kind,
                 value |-> outcome.value]
    /\ UNCHANGED <<now, hdVars, aggVars, cacheVars, batchVars, ragVars, styleVars, midsVars, initVars, tradeVars,
                   scanVars, rsiOut>>

CalculateRSI(candles) ==
    Called("calculateRSI", candles, calculateRSI(Closes(candles), 14))
CalculateEMA(candles) ==
    Called("calculateEMA", candles, calculateEMA(Closes(candles), 20))
CalculateMACD(candles) ==
    Called("calculateMACD", candles, calculateMACD(Closes(candles)))
FindSupportResistance(candles) ==
    Called("findSupportResistance", candles, findSupportResistance(candles))
CalculateBollingerBands(candles) ==
    Called("calculateBollingerBands", candles,
           ShortBollingerBands(Closes(candles), 20))
CalculateIchimokuCloud(candles) ==
    Called("calculateIchimokuCloud", candles, calculateIchimokuCloud(candles))
DetectDivergence(candles) ==
    Called("detectDivergence", candles,
           detectDivergence(Closes(candles), RsiValuesOf(Closes(candles)), 10))
DetectVolumeTrend(candles) ==
    Called("detectVolumeTrend", candles, detectVolumeTrend(candles, 20))

\* calculateRSI on series of prices, with the period given.
PriceSeries == SeqsUpTo(1..MaxPrice, MaxSeries)
RsiPeriods == {2, 3}

NoRsiOut == [called |-> FALSE, prices |-> << >>, period |-> 0, value |-> 0]

CalculateRSIOf(prices, period) ==
    /\ rsiOut' = [called |-> TRUE, prices |-> prices, period |-> period,
                  value |-> calculateRSI(prices, period).value]
    /\ UNCHANGED <<now, hdVars, aggVars, cacheVars, batchVars, ragVars,
                   styleVars, midsVars, initVars, tradeVars, scanVars, taOut>>

\* One call from the initial state.
NextRSI ==
    /\ rsiOut = NoRsiOut
    /\ \E prices \in PriceSeries, period \in RsiPeriods :
           CalculateRSIOf(prices, period)

InitTA == taOut = NoTaOut /\ rsiOut = NoRsiOut

NextTA ==
    \E candles \in Histories :
        \/ CalculateRSI(candles)
        \/ CalculateEMA(candles)
        \/ CalculateMACD(candles)
        \/ FindSupportResistance(candles)
        \/ CalculateBollingerBands(candles)
        \/ CalculateIchimokuCloud(candles)
        \/ DetectDivergence(candles)
        \/ DetectVolumeTrend(candles)


(***************************************************************************)
(* The style evaluators of TradingAgentService on every market condition   *)
(***************************************************************************)

Trends == {"bullish", "bearish", "neutral"}
Volatilities == {"low", "high"}
Divergences ==
    {[bullish |-> FALSE, bearish |-> FALSE],
     [bullish |-> TRUE, bearish |-> FALSE],
     [bullish |-> FALSE, bearish |-> TRUE]}

\* calculateMarketCondition of a full window (lines 66-116): the shape of
\* the closes, and with it the volumes, levels, bands and cloud, is one of
\* the three windows; the RSI, the trend, the sign of the MACD histogram,
\* the volatility and the divergence are taken independently of the shape.
ConditionsOf(shape) ==
    {[shape EXCEPT !.trend = trend, !.volatility = volatility,
                   !.macdHistogram = histogram, !.divergence = divergence] :
         trend \in Trends, volatility \in Volatilities,
         histogram \in {0 - 1, 1}, divergence \in Divergences}

MarketConditions ==
    UNION {ConditionsOf(RisingMarket(100, rsi))
               \cup ConditionsOf(FallingMarket(100, rsi))
               \cup ConditionsOf(FlatMarket(100, rsi)) : rsi \in RsiValues}

NoStyleOut == [style |-> "none", markets |-> << >>, analysis |-> NoAnalysis]

Evaluated(style, markets, analysis) ==
    /\ styleOut' = [style |-> style, markets |-> markets,
                    analysis |-> analysis]
    /\ UNCHANGED <<now, hdVars, aggVars, cacheVars, batchVars, ragVars,
                   tradeVars, scanVars, taVars, midsVars, initVars>>

AnalyzeScalping(market3m, market15m) ==
    Evaluated("Scalping", <<market3m, market15m>>,
              analyzeScalping(1000, market3m, market15m))
AnalyzeDayTrading(market15m, market1h) ==
    Evaluated("Day Trading", <<market15m, market1h>>,
              analyzeDayTrading(1000, market15m, market1h))
AnalyzeSwingTrading(market1h, market4h) ==
    Evaluated("Swing Trading", <<market1h, market4h>>,
              analyzeSwingTrading(1000, market1h, market4h))
AnalyzePositionTrading(market4h) ==
    Evaluated("Position Trading", <<market4h>>,
              analyzePositionTrading(1000, market4h))

InitStyle == styleOut = NoStyleOut

\* One evaluation from the initial state.
NextStyle ==
    /\ styleOut = NoStyleOut
    /\ \E first, second \in MarketConditions :
           \/ AnalyzeScalping(first, second)
           \/ AnalyzeDayTrading(first, second)
           \/ AnalyzeSwingTrading(first, second)
           \/ AnalyzePositionTrading(first)


(***************************************************************************)
(* TradingAgentService.getCurrentPrice and getCurrentPrices: the cache of  *)
(* mid prices                                                              *)
(***************************************************************************)
PRICE_TTL == 120000

MidCalls == 1..MaxMidCalls
MidCoins == {"BTC", "ETH"}

\* new Map()
EmptyMap == << >>
\* The bodies an 'allMids' request is answered with.
MidsData == {[coin \in MidCoins |-> 1000], [coin \in {"BTC"} |-> 1001]}
MidsOutcomes == {"ok", "error"}

\* Lines 623-629: cachedPrices.get(coin), null for a missing or zero price.
CachedPriceOf(prices, coin) ==
    IF coin \in DOMAIN prices /\ prices[coin] # 0 THEN prices[coin]
    ELSE NoPrice

\* Lines 636-653: the Map of the answer, an empty Map when the request
\* failed.
getCurrentPrices(outcome, data) ==
    IF outcome = "ok" THEN data ELSE EmptyMap

NoPriceCall == [pc |-> "none", coin |-> "", ret |-> NoPrice,
                outcome |-> "none", held |-> NoPrice]

\* Line 618.
NeedsRefresh(t) == t - lastPriceUpdate > PRICE_TTL

\* getCurrentPrice(coin), up to the await of line 619 or to its return.
\* Calls are numbered in call order.
GetCurrentPrice(k, coin) ==
    /\ priceCall[k].pc = "none"
    /\ \A j \in MidCalls : j < k => priceCall[j].pc # "none"
    /\ IF NeedsRefresh(now)
       THEN /\ priceCall' = [priceCall EXCEPT
                                ![k] = [NoPriceCall EXCEPT !.pc = "http",
                                                           !.coin = coin]]
            /\ midsHist' =
                   [issued |-> midsHist.issued + 1,
                    lastIssue |-> now,
                    sameWindow |->
                        \/ midsHist.sameWindow
                        \/ /\ midsHist.issued > 0
                           /\ now - midsHist.lastIssue <= PRICE_TTL]
       ELSE /\ priceCall' = [priceCall EXCEPT
                                ![k] = [NoPriceCall EXCEPT
                                           !.pc = "done", !.coin = coin,
                                           !.ret = CachedPriceOf(cachedPrices, coin)]]
            /\ UNCHANGED midsHist
    /\ UNCHANGED <<now, hdVars, aggVars, cacheVars, batchVars, ragVars,
                   tradeVars, scanVars, taVars, styleVars, initVars,
                   cachedPrices, lastPriceUpdate>>

\* The 'allMids' request of call k ends: lines 619-629.  held: history,
\* the price the cache held for the coin before.
MidsRespond(k, outcome, data) ==
    /\ priceCall[k].pc = "http"
    /\ cachedPrices' = getCurrentPrices(outcome, data)
    /\ lastPriceUpdate' = now
    /\ priceCall' = [priceCall EXCEPT
                        ![k] = [@ EXCEPT
                                   !.pc = "done",
                                   !.outcome = outcome,
                                   !.held = CachedPriceOf(cachedPrices,
                                                          priceCall[k].coin),
                                   !.ret = CachedPriceOf(
                                               getCurrentPrices(outcome, data),
                                               priceCall[k].coin)]]
    /\ UNCHANGED <<now, hdVars, aggVars, cacheVars, batchVars, ragVars,
                   tradeVars, scanVars, taVars, styleVars, initVars, midsHist>>

\* Time passes: half a TTL, or just more than the TTL.
MidsSteps == {PRICE_TTL \div 2, PRICE_TTL + 1}

TickMids(d) ==
    /\ now + d <= Epoch + MaxElapsedMids
    /\ now' = now + d
    /\ UNCHANGED <<hdVars, aggVars, cacheVars, batchVars, ragVars,
                   tradingVars>>

InitMids ==
    /\ cachedPrices = EmptyMap
    /\ lastPriceUpdate = 0
    /\ priceCall = [k \in MidCalls |-> NoPriceCall]
    /\ midsHist = [issued |-> 0, lastIssue |-> 0, sameWindow |-> FALSE]

NextMids ==
    \/ \E k \in MidCalls, coin \in MidCoins : GetCurrentPrice(k, coin)
    \/ \E k \in MidCalls, outcome \in MidsOutcomes, data \in MidsData :
           MidsRespond(k, outcome, data)
    \/ \E d \in MidsSteps : TickMids(d)


(***************************************************************************)
(* RAGManagerService.initializeData                                        *)
(***************************************************************************)
initMaxRetries == 5
initRetryDelay == 2000

NoInitCall == [pc |-> "none", retryCount |-> 0, due |-> 0]

\* A test that allows one more retry.
InitShouldRetryOnceMore(retryCount) == retryCount <= initMaxRetries

\* Lines 86 and 100: retryCount < maxRetries
InitShouldRetry(retryCount) == retryCount < initMaxRetries

\* Lines 98-107, the catch block: a retry after the delay, or the end.
CatchInitError(retryCount, t) ==
    IF InitShouldRetry(retryCount)
    THEN [pc |-> "waiting", retryCount |-> retryCount,
          due |-> t + initRetryDelay]
    ELSE [pc |-> "returned", retryCount |-> retryCount, due |-> 0]

\* Lines 84-95: initializeData(retryCount) from its entry to its first
\* await, or to its end through the catch block.
InitializeDataFrom(retryCount, t) ==
    IF ~coinListReady
    THEN IF InitShouldRetry(retryCount)
         THEN [pc |-> "waiting", retryCount |-> retryCount,
               due |-> t + initRetryDelay]
         ELSE \* throw new Error('Coin list initialization timeout')
              CatchInitError(retryCount, t)
    ELSE [pc |-> "updating", retryCount |-> retryCount, due |-> 0]

\* History: the readiness was checked at time t, and what it gave.
NoteCheck(hist, t) ==
    [hist EXCEPT !.checks = Append(@, t),
                 !.readySeen = @ \/ coinListReady,
                 !.updateRan = @ \/ coinListReady]

\* The constructor, lines 71-78: void this.initializeData()
ConstructRAGManager ==
    /\ initCall.pc = "none"
    /\ initCall' = InitializeDataFrom(0, now)
    /\ initHist' = NoteCheck(initHist, now)
    /\ UNCHANGED <<now, hdVars, aggVars, cacheVars, batchVars, ragVars,
                   tradeVars, scanVars, taVars, styleVars, midsVars,
                   coinListReady, isInitialized>>

\* The timer of line 88 (or 104) fires: initializeData(retryCount + 1).
\* Nothing follows the nested call in the caller but its return.
InitTimerFires ==
    /\ initCall.pc = "waiting"
    /\ now >= initCall.due
    /\ initCall' = InitializeDataFrom(initCall.retryCount + 1, now)
    /\ initHist' = NoteCheck(initHist, now)
    /\ UNCHANGED <<now, hdVars, aggVars, cacheVars, batchVars, ragVars,
                   tradeVars, scanVars, taVars, styleVars, midsVars,
                   coinListReady, isInitialized>>

\* updateRAGData returns (lines 110-158: it found no coins, stored data, or
\* caught its own error), lines 96-97.
UpdateRAGDataReturns ==
    /\ initCall.pc = "updating"
    /\ isInitialized' = TRUE
    /\ initCall' = [initCall EXCEPT !.pc = "returned"]
    /\ UNCHANGED <<now, hdVars, aggVars, cacheVars, batchVars, ragVars,
                   tradeVars, scanVars, taVars, styleVars, midsVars,
                   coinListReady, initHist>>

\* The coin directory finishes loading.
CoinListLoads ==
    /\ ~coinListReady
    /\ coinListReady' = TRUE
    /\ UNCHANGED <<now, hdVars, aggVars, cacheVars, batchVars, ragVars,
                   tradeVars, scanVars, taVars, styleVars, midsVars,
                   isInitialized, initCall, initHist>>

\* Time passes while the retry timer is running.
InitSteps == {1000, 2000}

TickInitialize(d) ==
    /\ initCall.pc = "waiting"
    /\ now < initCall.due
    /\ now' = now + d
    /\ UNCHANGED <<hdVars, aggVars, cacheVars, batchVars, ragVars,
                   tradingVars>>

InitInitialize ==
    /\ coinListReady = FALSE
    /\ isInitialized = FALSE
    /\ initCall = NoInitCall
    /\ initHist = [checks |-> << >>, readySeen |-> FALSE, updateRan |-> FALSE]

NextInitialize ==
    \/ ConstructRAGManager
    \/ InitTimerFires
    \/ UpdateRAGDataReturns
    \/ CoinListLoads
    \/ \E d \in InitSteps : TickInitialize(d)

\* The constructor runs, due timers fire, time passes and updateRAGData
\* returns; the coin directory may never load.
FairInitialize ==
    /\ WF_vars(ConstructRAGManager)
    /\ WF_vars(InitTimerFires)
    /\ WF_vars(UpdateRAGDataReturns)
    /\ WF_vars(\E d \in InitSteps : TickInitialize(d))

InitHD ==
    /\ requestQueue = << >>
    /\ isProcessingQueue = FALSE
    /\ lastRequestTime = 0
    /\ promise = [c \in Calls |-> "none"]
    /\ result = [c \in Calls |-> << >>]
    /\ closure = [c \in Calls |-> "none"]
    /\ fetch = [c \in Calls |-> NoFetch]
    /\ loop = [c \in Calls |-> NoLoop]
    /\ hdHist = [call |-> [c \in Calls |-> NoCallHist],
                 started |-> << >>, httpLast |-> 0, shortGap |-> FALSE]

Init ==
    /\ now = Epoch
    /\ InitHD
    /\ InitAgg
    /\ InitCache
    /\ InitBatch
    /\ InitRag
    /\ InitTrade
    /\ InitScan
    /\ InitTA
    /\ InitStyle
    /\ InitMids
    /\ InitInitialize

NextHD ==
    \/ \E c \in Calls : GetCandles(c)
    \/ \E l \in Calls : LoopTimerFires(l)
    \/ \E c \in Calls, o \in Outcomes, d \in Payloads : HttpRespond(c, o, d)
    \/ \E c \in Calls : RetryTimerFires(c)
    \/ \E l \in Calls : LoopResume(l)
    \/ \E d \in HDSteps : TickHD(d)

SpecHD == Init /\ [][NextHD]_vars

\* The event loop runs every continuation that is ready and every timer that
\* is due, time passes while a delay is running, and every HTTP attempt
\* ends (with an answer, an error or its timeout).  Callers are free to call
\* or not.
FairHD ==
    /\ \A l \in Calls : WF_vars(LoopTimerFires(l))
    /\ \A l \in Calls : WF_vars(LoopResume(l))
    /\ \A c \in Calls : WF_vars(RetryTimerFires(c))
    /\ \A c \in Calls :
           WF_vars(\E o \in Outcomes, d \in Payloads : HttpRespond(c, o, d))
    /\ \A d \in HDSteps : WF_vars(TickHD(d))

SpecHDLive == Init /\ [][NextHD]_vars /\ FairHD

SpecAgg == Init /\ [][NextAgg]_vars

SpecCache == Init /\ [][NextCache]_vars

SpecBatch == Init /\ [][NextBatch]_vars

SpecRAG == Init /\ [][NextRag]_vars

SpecRAGCap == Init /\ [][NextRagCap]_vars

SpecMonth == Init /\ [][NextMonth]_vars

SpecDay == Init /\ [][NextDay]_vars

SpecTrade == Init /\ [][NextTrade]_vars

SpecScan == Init /\ [][NextScan]_vars

SpecTA == Init /\ [][NextTA]_vars

SpecRSI == Init /\ [][NextRSI]_vars

SpecStyle == Init /\ [][NextStyle]_vars

SpecMids == Init /\ [][NextMids]_vars

SpecInitialize == Init /\ [][NextInitialize]_vars /\ FairInitialize

(***************************************************************************)
(* Claims about HistoricalDataService, checked under SpecHD.               *)
(***************************************************************************)
Resolved(c) == promise[c] = "resolved"
H(c) == hdHist.call[c]
FinallyFailed(c) == H(c).failures = H(c).attempts /\ H(c).failures > maxRetries

\* C1: getCandles never raises.  No promise is rejected, no queued closure and
\* no processQueue loop ends with an error; as soon as the fetch of a call has
\* ended its promise is resolved, with the mapped candles of the attempt that
\* succeeded, or with the empty list when the last attempt failed.
C1_GetCandlesNeverRaises ==
    \A c \in Calls :
        /\ promise[c] # "rejected"
        /\ closure[c] # "threw"
        /\ loop[c].pc # "failed"
        /\ fetch[c].pc = "done" => Resolved(c)
        /\ Resolved(c) =>
              /\ \A d \in H(c).okData : result[c] = MapCandles(d)
              /\ H(c).okData = {} => FinallyFailed(c) /\ result[c] = << >>

\* One call resolved with [] after all its attempts failed, another resolved
\* with mapped candles after a failed first attempt.
C1_Witness ==
    \E c, d \in Calls :
        /\ Resolved(c) /\ FinallyFailed(c) /\ result[c] = << >>
        /\ Resolved(d) /\ H(d).failures = 1 /\ Len(result[d]) > 0

\* C2: a failed candle request is retried exactly once.  A call makes one HTTP
\* attempt when the first succeeds, two when the first fails and never a
\* third; the second attempt starts at least retryDelay after the first
\* failure; when it fails too the call resolves with the empty list.
C2_RetriedExactlyOnce ==
    \A c \in Calls :
        /\ H(c).attempts <= 2
        /\ ~H(c).earlyRetry
        /\ Resolved(c) /\ H(c).failures = 0 => H(c).attempts = 1
        /\ Resolved(c) /\ H(c).failures >= 1 => H(c).attempts = 2
        /\ H(c).failures >= 1 /\ fetch[c].pc \in {"http", "done"}
              => H(c).attempts = 2
        /\ H(c).failures >= 2 => Resolved(c) /\ result[c] = << >>

\* A call whose two attempts both failed, the second one by the HTTP timeout.
C2_Witness ==
    \E c \in Calls :
        /\ H(c).attempts = 2 /\ H(c).failures = 2 /\ Resolved(c)
        /\ now - hdHist.httpLast >= timeout

\* C3: candle requests are serialized through a FIFO queue.  At most one
\* queued request executes at any time, at most one processQueue loop is
\* active, and requests begin executing in the order of the getCandles calls.
C3_SerializedFifo ==
    /\ Cardinality({c \in Calls : closure[c] = "running"}) <= 1
    /\ Cardinality({l \in Calls : loop[l].pc \in {"waiting", "awaiting"}}) <= 1
    /\ hdHist.started = [k \in 1..Len(hdHist.started) |-> k]

\* The second request executes after the first while a third caller waits.
C3_Witness ==
    /\ Len(hdHist.started) >= 2
    /\ closure[2] = "running"
    /\ Len(requestQueue) >= 1

\* C4: any two consecutive outbound HTTP requests, retry attempts included,
\* are issued at least RATE_LIMIT_DELAY apart.
C4_MinSpacingAllRequests == ~hdHist.shortGap

\* A timer is not yet due and the clock of the model has no step left.
ClockStuck ==
    /\ \/ \E l \in Calls : loop[l].pc = "waiting" /\ now < loop[l].due
       \/ \E c \in Calls : fetch[c].pc = "retryWait" /\ now < fetch[c].due
    /\ \A d \in HDSteps : ~(TimeMatters(d) /\ now + d <= Epoch + MaxElapsedHD)

\* C26: the request queue has no lost wake-up.  Whenever the queue is not
\* empty a processQueue loop is active; and, with every HTTP attempt ending
\* and every due timer firing (as long as the clock has steps left), every
\* getCandles call is eventually resolved and isProcessingQueue eventually
\* returns to false, whenever the callers enqueue.  A promise never goes
\* back to pending and only a call raises the flag, so for the finitely
\* many calls of a behaviour this is: from some moment on no call is
\* pending and the flag is down.
C26_NoLostWakeup ==
    /\ [](Len(requestQueue) > 0 => isProcessingQueue)
    /\ []<>(~ClockStuck)
       => <>[](/\ \A c \in Calls : promise[c] # "pending"
               /\ ~isProcessingQueue)

\* Every call is resolved and the flag is down again, after a call that was
\* enqueued while a loop was active (its own processQueue returned at the
\* guard), a retry, and a loop that had finished before a later call came.
C26_Witness ==
    /\ \A c \in Calls : promise[c] = "resolved"
    /\ ~isProcessingQueue
    /\ \E c \in Calls : loop[c].pc = "returned"
    /\ Cardinality({c \in Calls : loop[c].pc = "exited"}) >= 2
    /\ \E c \in Calls : hdHist.call[c].failures > 0

(***************************************************************************)
(* Claims about the aggregation, checked under SpecAgg.                    *)
(***************************************************************************)
Succeeded == {e \in SeqRange(ExchangesOf(aggReq.kind)) : aggHttp[e].kind = "ok"}
\* The number exchange e quoted: the price, or the rate in percent.
Quoted(e) ==
    IF aggReq.kind = "price" THEN parseFloat(aggHttp[e].raw)
                             ELSE parseFloat(aggHttp[e].raw) * 100

RECURSIVE SumQuoted(_)
SumQuoted(S) ==
    IF S = {} THEN 0
    ELSE LET e == CHOOSE x \in S : TRUE IN Quoted(e) + SumQuoted(S \ {e})

\* C5: aggregation tolerates partial failure.  For every subset of exchanges
\* that fails, the aggregate holds exactly the quotes of the exchanges that
\* succeeded, its average is their arithmetic mean, and the aggregation fails
\* with NoDataAvailable if and only if no exchange succeeded.
C5_PartialFailureTolerated ==
    aggPc = "done" =>
        /\ aggResult.status = "NoDataAvailable" <=> Succeeded = {}
        /\ Succeeded # {} =>
              /\ aggResult.status = "ok"
              /\ Len(aggResult.quotes) = Cardinality(Succeeded)
              /\ {q.exchange : q \in SeqRange(aggResult.quotes)} = Succeeded
              /\ \A q \in SeqRange(aggResult.quotes) :
                    q.st = "quote" /\ q.value = Quoted(q.exchange)
              /\ aggResult.average.den = Cardinality(Succeeded)
              /\ aggResult.average.num = SumQuoted(Succeeded)

\* A price aggregation in which two exchanges quoted different prices and
\* the other two failed.
C5_Witness ==
    /\ aggPc = "done"
    /\ aggReq.kind = "price"
    /\ Cardinality(Succeeded) = 2
    /\ aggResult.average.num = 3 /\ aggResult.average.den = 2

(***************************************************************************)
(* Claims about CacheService, checked under SpecCache.                     *)
(***************************************************************************)
\* C6, as stated: get returns the value last set for the key when the time
\* elapsed since that set is less than the kind's TTL, and none when the
\* elapsed time is greater than or equal to the TTL.
C6_ExpiredAtTtl ==
    cacheRet.op = "get" /\ cacheRet.wasSet =>
        /\ cacheRet.elapsed < TtlOf(cacheRet.type)
              => cacheRet.value = cacheRet.setData
        /\ cacheRet.elapsed >= TtlOf(cacheRet.type)
              => cacheRet.value = NullData

\* C6, amended: get returns the value last set for the key when the elapsed
\* time is at most the kind's TTL, and none when it is greater than the TTL
\* (or when the key was never set), with no invalidation call.
C6_ExpiredAfterTtl ==
    cacheRet.op = "get" =>
        IF cacheRet.wasSet /\ cacheRet.elapsed <= TtlOf(cacheRet.type)
        THEN cacheRet.value = cacheRet.setData
        ELSE cacheRet.value = NullData

\* A get exactly one TTL after the set, which still returns the value.
C6_Witness ==
    /\ cacheRet.op = "get" /\ cacheRet.wasSet
    /\ cacheRet.type = "funding"
    /\ cacheRet.elapsed = FUNDING_CACHE_TTL
    /\ cacheRet.value = cacheRet.setData /\ cacheRet.value # NullData

CacheOf(type) == IF type = "price" THEN priceCache ELSE fundingCache
CacheAfter(type) == IF type = "price" THEN priceCache' ELSE fundingCache'

\* C22: writes overwrite and expiry is lazy.  A get made less than the TTL
\* after the latest set of its key returns the value of that set, whatever
\* the key held before; an entry that is present carries the value and the
\* time of the latest set of its key; and an entry is removed only by a get
\* of that key and kind that finds it older than the TTL and returns none
\* (no sweep, no set of any key removes one).
C22_OverwriteAndLazyExpiry ==
    /\ []((/\ cacheRet.op = "get" /\ cacheRet.wasSet
           /\ cacheRet.elapsed < TtlOf(cacheRet.type))
          => cacheRet.value = cacheRet.setData)
    /\ [](\A t \in CacheKinds, k \in Symbols :
            CacheOf(t)[k].present
            => /\ cacheHist.last[t][k].isSet
               /\ CacheOf(t)[k].data = cacheHist.last[t][k].data
               /\ CacheOf(t)[k].timestamp = cacheHist.last[t][k].at)
    /\ [][\A t \in CacheKinds, k \in Symbols :
            (CacheOf(t)[k].present /\ ~CacheAfter(t)[k].present)
            => /\ cacheRet'.op = "get"
               /\ cacheRet'.key = k /\ cacheRet'.type = t
               /\ cacheRet'.value = NullData
               /\ now - CacheOf(t)[k].timestamp > TtlOf(t)]_vars

\* A get, made after some time but before the TTL, of a key that was set
\* twice with different values: it returns the second.
C22_Witness ==
    /\ cacheRet.op = "get" /\ cacheRet.wasSet
    /\ cacheRet.elapsed > 0 /\ cacheRet.elapsed < TtlOf(cacheRet.type)
    /\ cacheHist.last[cacheRet.type][cacheRet.key].data = cacheRet.setData
    /\ cacheHist.last[cacheRet.type][cacheRet.key].before
           \notin {NullData, cacheRet.setData}
    /\ cacheRet.value = cacheRet.setData

(***************************************************************************)
(* The batch-refresh trigger                                               *)
(***************************************************************************)
InFlight == {k \in BatchCalls : supCall[k].pc \in {"gather", "batch"}}
CallMade(k) == supCall[k].pc = "none" /\ supCall'[k].pc # "none"
CacheCallMade == batchHist'.cacheCalls # batchHist.cacheCalls

\* C7: the batch-refresh trigger admits at most one refresh at a time and
\* honours the cooldown: at most one batchUpdateData call is past the guard
\* at any time, and a call made while a refresh is in flight, or less than
\* BATCH_COOLDOWN after the last refresh ended, returns at the guard: it
\* starts no fetch and changes neither the flag, the cooldown stamp nor the
\* cache.  The same for updateBatchCache and its own stamp.
C7_OneRefreshAndCooldown ==
    /\ [](Cardinality(InFlight) <= 1 /\ (isUpdating <=> InFlight # {}))
    /\ [][\A k \in BatchCalls :
            (/\ CallMade(k)
             /\ \/ InFlight # {}
                \/ now - batchHist.lastRefreshEnd < BATCH_COOLDOWN)
            => /\ supCall'[k].pc = "noop"
               /\ UNCHANGED <<isUpdating, lastBatchUpdate, priceCache,
                              fundingCache, batchHist>>]_vars
    /\ [][(/\ CacheCallMade
           /\ now - batchHist.lastCacheRefresh < CACHE_BATCH_COOLDOWN)
          => UNCHANGED <<batchInProgress, cacheLastBatchUpdate, priceCache,
                         fundingCache>>]_vars

\* One call was refused because a refresh was in flight, another because the
\* cooldown was running, and a later one was admitted and fetched.
C7_Witness ==
    /\ \E k \in BatchCalls : supCall[k].why = "inFlight"
    /\ \E k \in BatchCalls : supCall[k].why = "cooldown"
    /\ batchHist.fetches >= 1
    /\ \E k \in BatchCalls : supCall[k].pc = "done"
    /\ batchHist.cacheNoops >= 1

(***************************************************************************)
(* PathRAGTool                                                             *)
(***************************************************************************)
InsertedAt(path) ==
    IF path \in DOMAIN ragHist.inserted THEN ragHist.inserted[path] ELSE << >>
RetainedAt(path) ==
    LET kept == DataGet(ragData, getKey(path))
    IN  [i \in 1..Len(kept) |-> kept[i].data]

\* C8: after any sequence of inserts the list retained at each path holds at
\* most 1000 entries, and they are the most recently inserted values at that
\* path, in insertion order (so the 1001st insert evicts the oldest).
C8_CapKeepsMostRecent ==
    \A path \in DOMAIN ragHist.inserted :
        LET inserted == InsertedAt(path)
            n == Len(inserted)
            m == IF n > 1000 THEN 1000 ELSE n
        IN  /\ Len(RetainedAt(path)) <= 1000
            /\ RetainedAt(path) = SubSeq(inserted, n - m + 1, n)

\* 1001 values went in at one path: 1000 are retained, the first one is gone.
C8_Witness ==
    /\ Len(InsertedAt(LongPath)) = 1001
    /\ Len(RetainedAt(LongPath)) = 1000
    /\ RetainedAt(LongPath)[1] = InsertedAt(LongPath)[2]
    /\ RetainedAt(LongPath)[1000] = InsertedAt(LongPath)[1001]

\* C9: search(path) without predicate returns exactly the value most
\* recently inserted at that exact path, whatever the value, and the empty
\* list for a path at which nothing was inserted.
C9_SearchReturnsLatest ==
    (/\ ragOut.op = "search"
     /\ ~ragOut.query.given
     /\ ragOut.seen = ragHist.count)
    => ragOut.results =
          (IF Len(InsertedAt(ragOut.path)) = 0 THEN << >>
           ELSE <<InsertedAt(ragOut.path)[Len(InsertedAt(ragOut.path))]>>)

(***************************************************************************)
(* RAGManagerService.searchByMonth                                         *)
(***************************************************************************)
CalendarDays(year, month) ==
    IF month \in {4, 6, 9, 11} THEN 30
    ELSE IF month # 2 THEN 31
    ELSE IF year % 4 = 0 /\ (year % 100 # 0 \/ year % 400 = 0) THEN 29
    ELSE 28

\* The day-level candidate of a day of the searched month: the value last
\* stored for that day.
CandidateDays ==
    {d \in 1..CalendarDays(ragOut.year, ragOut.month) :
        Len(InsertedAt(DatePath(ragOut.symbol, ragOut.year, ragOut.month, d))) > 0}
Candidate(d) ==
    LET stored == InsertedAt(DatePath(ragOut.symbol, ragOut.year, ragOut.month, d))
    IN  stored[Len(stored)]
HighOrAverage(v) == IF v.highPrice # 0 THEN v.highPrice ELSE v.averagePrice
MonthMaximum ==
    CHOOSE x \in {HighOrAverage(Candidate(d)) : d \in CandidateDays} :
        \A d \in CandidateDays : HighOrAverage(Candidate(d)) <= x
FirstAtMaximum ==
    CHOOSE d \in CandidateDays :
        /\ HighOrAverage(Candidate(d)) = MonthMaximum
        /\ \A e \in CandidateDays :
               e < d => HighOrAverage(Candidate(e)) # MonthMaximum

\* C10: searchByMonth returns at most as many entries as the month has
\* days; asked for the highest, with data on at least one day, it returns
\* exactly one entry, the first candidate in day order whose high (or, the
\* high missing, average) price is the maximum over the month's candidates,
\* with that maximum as its averagePrice.
C10_SearchByMonthHighest ==
    (/\ ragOut.op = "searchByMonth"
     /\ ragOut.seen = ragHist.count)
    => /\ Len(ragOut.results) <= CalendarDays(ragOut.year, ragOut.month)
       /\ (ragOut.priceType = "highest" /\ CandidateDays # {})
          => /\ Len(ragOut.results) = 1
             /\ ragOut.results[1].averagePrice = MonthMaximum
             /\ ragOut.results[1] =
                    [Candidate(FirstAtMaximum) EXCEPT !.averagePrice = MonthMaximum]

\* The highest of February 2024 was asked with the 1st and the 29th tied at
\* the maximum, the 1st by its close because its high is 0, and March 1st
\* holding data too.
C10_Witness ==
    /\ ragOut.op = "searchByMonth"
    /\ ragOut.seen = ragHist.count
    /\ ragOut.priceType = "highest"
    /\ ragOut.year = 2024 /\ ragOut.month = 2
    /\ CandidateDays = {1, 29}
    /\ Candidate(1).highPrice = 0
    /\ HighOrAverage(Candidate(1)) = HighOrAverage(Candidate(29))
    /\ Len(InsertedAt(DatePath(ragOut.symbol, 2024, 3, 1))) > 0
    /\ Len(ragOut.results) = 1

\* ---------------------------------------------------------------------
\* C11: analyzeTradeOpportunity never raises: whatever the four candle
\* fetches and the price fetch gave, a finished call has returned either a
\* TradingSignal or null, and it has returned null when every timeframe's
\* candle fetch failed (getCandles resolves with no candles).
C11_NeverRaises ==
    tradePc = "done" =>
        /\ tradeOut.returned \in {"signal", "null"}
        /\ tradeOut.returned = "signal" <=> tradeOut.signal # NoSignal
        /\ tradeOut.lens = <<0, 0, 0, 0>> => tradeOut.returned = "null"

C11_Witness ==
    /\ tradePc = "done"
    /\ tradeOut.lens = <<0, 0, 0, 0>>
    /\ tradeOut.price # NoPrice
    /\ ~tradeOut.rejected
    /\ tradeOut.returned = "null"

\* ---------------------------------------------------------------------
\* The windows (1: 3m, 2: 15m, 3: 1h, 4: 4h) each evaluator is given
\* (lines 541-576 and 125-156).
WindowsOf(style) ==
    CASE style = "Scalping" -> {1, 2}
      [] style = "Day Trading" -> {2, 3}
      [] style = "Swing Trading" -> {3, 4}
      [] style = "Position Trading" -> {4}

\* C12: analyzeTradeOpportunity returns null whenever the current price is
\* unavailable or any of the four windows (3m, 15m, 1h, 4h) has fewer than
\* 50 candles, and no evaluator runs on a window shorter than 50 candles.
C12_AbortsOnAnyShortWindow ==
    tradePc = "done" /\ ~tradeOut.rejected =>
        /\ (tradeOut.price = NoPrice \/ \E i \in 1..4 : tradeOut.lens[i] < 50)
               => tradeOut.returned = "null"
        /\ \A style \in tradeOut.ran :
               \A i \in WindowsOf(style) : tradeOut.lens[i] >= 50

\* ---------------------------------------------------------------------
\* C13: every signal analyzeTradeOpportunity returns has the confidence of
\* the selected analysis, which is at least 60, and a side of long or
\* short; a selected analysis with confidence below 60 gives null.
C13_SignalOnlyFromSixty ==
    tradePc = "done" =>
        /\ tradeOut.returned = "signal" =>
               /\ tradeOut.selected # NoAnalysis
               /\ tradeOut.signal.confidence = tradeOut.selected.confidence
               /\ tradeOut.signal.confidence >= 60
               /\ tradeOut.signal.side \in {"long", "short"}
        /\ tradeOut.selected # NoAnalysis /\ tradeOut.selected.confidence < 60
               => tradeOut.returned = "null"

C13_Witness ==
    /\ tradePc = "done"
    /\ tradeOut.selected # NoAnalysis
    /\ tradeOut.selected.confidence \in 50..59
    /\ tradeOut.returned = "null"

\* ---------------------------------------------------------------------
\* C14: with a style requested only that style's evaluator runs and the
\* decision is its result (a signal names that style); with no style
\* requested all four evaluators run and the selected analysis is a
\* non-null result whose confidence is the maximum over the non-null
\* results (none selected exactly when all four returned null).
C14_StyleSelection ==
    tradePc = "done" /\ tradeOut.ran # {} =>
        LET nonNull == {tradeOut.results[st] : st \in tradeOut.ran} \ {NoAnalysis}
        IN  /\ tradeStyle # "" =>
                /\ tradeOut.ran = {tradeStyle}
                /\ tradeOut.selected = tradeOut.results[tradeStyle]
                /\ tradeOut.selected # NoAnalysis
                       => tradeOut.selected.style = tradeStyle
                /\ tradeOut.returned = "signal"
                       => tradeOut.signal.reason[1] = "Strategy: " \o tradeStyle
            /\ tradeStyle = "" =>
                /\ tradeOut.ran = Styles
                /\ nonNull = {} <=> tradeOut.selected = NoAnalysis
                /\ nonNull # {} =>
                       /\ tradeOut.selected \in nonNull
                       /\ \A a \in nonNull :
                              a.confidence <= tradeOut.selected.confidence

C14_Witness ==
    /\ tradePc = "done"
    /\ tradeStyle = ""
    /\ tradeOut.ran = Styles
    /\ tradeOut.results["Scalping"] # NoAnalysis
    /\ tradeOut.selected # NoAnalysis
    /\ tradeOut.selected.confidence > tradeOut.results["Scalping"].confidence

\* ---------------------------------------------------------------------
\* C18: every signal analyzeTradeOpportunity returns, whichever evaluator
\* it comes from, has stopLoss < entryPrice < takeProfit when its side is
\* long and takeProfit < entryPrice < stopLoss when its side is short.
C18_StopsAroundEntry ==
    tradePc = "done" /\ tradeOut.returned = "signal" =>
        /\ tradeOut.signal.side = "long" =>
               /\ tradeOut.signal.stopLoss < tradeOut.signal.entryPrice
               /\ tradeOut.signal.entryPrice < tradeOut.signal.takeProfit
        /\ tradeOut.signal.side = "short" =>
               /\ tradeOut.signal.takeProfit < tradeOut.signal.entryPrice
               /\ tradeOut.signal.entryPrice < tradeOut.signal.stopLoss

\* A scalping signal whose stop distance is the Bollinger bandwidth (under
\* the cap of 0.002).
C18_Witness ==
    /\ tradePc = "done"
    /\ tradeOut.returned = "signal"
    /\ tradeOut.selected.style = "Scalping"
    /\ tradeOut.signal.side = "long"
    /\ tradeOut.signal.entryPrice - tradeOut.signal.stopLoss
           < 2 * tradeOut.price * Milli

\* ---------------------------------------------------------------------
\* C20: the decision of an evaluator is non-conflicting: in every signal,
\* every directional check that added confidence indicated the side the
\* signal has.
C20_ChecksAgreeWithSide ==
    tradePc = "done" /\ tradeOut.returned = "signal" =>
        tradeOut.selected.directions \subseteq {tradeOut.signal.side}

\* ---------------------------------------------------------------------
\* C15: one symbol's failure never aborts a scan: the scan never ends in
\* its catch; when it is over every monitored symbol has been analysed,
\* whatever the other symbols' analyses gave (an error, null or a signal);
\* and the opportunities collected are exactly the signals of the symbols
\* whose analysis gave one, once each.
C15_ScanSurvivesFailures ==
    /\ scanPc # "aborted"
    /\ \A c \in DOMAIN coinSt :
           coinSt[c].status = "signal"
               <=> \E j \in 1..Len(opportunities) :
                       opportunities[j] = monitoredCoins[c]
    /\ Len(opportunities)
           = Cardinality({c \in DOMAIN coinSt : coinSt[c].status = "signal"})
    /\ scanPc = "done" =>
           \A c \in DOMAIN coinSt : coinSt[c].analysed /\ Finished(coinSt[c])

\* A finished scan in which an analysis of the first batch threw and a
\* symbol of the second batch gave a signal.
C15_Witness ==
    /\ scanPc = "done"
    /\ Len(monitoredCoins) = 6
    /\ \E c \in 1..5 : coinSt[c].failed /\ coinSt[c].status = "null"
    /\ coinSt[6].status = "signal"
    /\ scanHist.errors = 1

\* ---------------------------------------------------------------------
\* C16: within one scan the symbols are processed in batches of 5: at most
\* 5 analyses are in flight, all of the current batch; the analyses of
\* batch k+1 start only when every analysis of batch k is complete and at
\* least 2000 ms after that; no delay follows the last batch (the scan is
\* over at the time its last batch completes).
C16_BatchesOfFive ==
    LET inFlight == {c \in DOMAIN coinSt :
                        coinSt[c].status \in {"inflight", "backoff"}}
        started == Len(scanHist.batchStart)
        ended == Len(scanHist.batchEnd)
    IN  /\ Cardinality(inFlight) <= 5
        /\ inFlight \subseteq BatchOf(scanI, Len(coinSt))
        /\ \A c \in DOMAIN coinSt :
               (inFlight # {} /\ c <= scanI) => Finished(coinSt[c])
        /\ \A k \in 2..started :
               /\ k - 1 <= ended
               /\ scanHist.batchStart[k] >= scanHist.batchEnd[k - 1] + 2000
        /\ \A c \in DOMAIN coinSt :
               coinSt[c].analysed => c <= 5 * started
        /\ scanPc = "delay" => scanI + 5 < Len(monitoredCoins)
        /\ scanPc = "done" /\ ended > 0 =>
               scanHist.doneAt = scanHist.batchEnd[ended]

\* A finished scan of two batches whose first batch took time.
C16_Witness ==
    /\ scanPc = "done"
    /\ Len(scanHist.batchStart) = 2
    /\ scanHist.batchEnd[1] > scanHist.batchStart[1]
    /\ scanHist.batchStart[2] >= scanHist.batchEnd[1] + 2000
    /\ scanHist.doneAt = scanHist.batchEnd[2]

\* ---------------------------------------------------------------------
\* C17: no technical-analysis function raises on insufficient history: on
\* every history, the empty one included, each of the eight functions
\* returns a value, and on a history shorter than its period calculateRSI
\* returns 50, calculateMACD zeros, calculateEMA and
\* calculateBollingerBands the last price (with zero bandwidth).
C17_NoFunctionRaises ==
    /\ taOut.kind # "raised"
    /\ taOut.fn = "calculateRSI" => taOut.value = 50
    /\ taOut.fn = "calculateMACD"
           => taOut.value = [value |-> 0, signal |-> 0, histogram |-> 0]
    /\ taOut.fn = "calculateEMA" /\ Len(taOut.candles) > 0
           => taOut.value = taOut.candles[Len(taOut.candles)].close
    /\ taOut.fn = "calculateBollingerBands" /\ Len(taOut.candles) > 0
           => /\ taOut.value.middle = taOut.candles[Len(taOut.candles)].close
              /\ taOut.value.bandwidth = 0

\* ---------------------------------------------------------------------
\* C19: a HistoricalPoint is immutable once written for a calendar day:
\* once a refresh cycle has stored the point of (symbol, day), searchByDate
\* keeps returning that first stored point, whatever later cycles store.
C19_PointImmutable ==
    (/\ ragOut.op = "searchByDate"
     /\ ragOut.seen = ragHist.count
     /\ Len(InsertedAt(ragOut.path)) > 0)
    => ragOut.results = <<InsertedAt(ragOut.path)[1]>>


\* C21: every StyleAnalysis a style evaluator returns, on every market
\* condition, has a confidence in [0, 100].
C21_ConfidenceInRange ==
    styleOut.analysis # NoAnalysis =>
        /\ styleOut.analysis.confidence >= 0
        /\ styleOut.analysis.confidence <= 100

\* The highest confidence an evaluator reaches: swing trading with all five
\* of its checks adding (15 + 10 + 20 + 20 + 15).
C21_Witness ==
    /\ styleOut.style = "Swing Trading"
    /\ styleOut.analysis.confidence = 80


(***************************************************************************)
(* Claims about the trend metadata of PathRAGTool, checked under SpecRAG.  *)
(***************************************************************************)
\* The paths that share their key with no other path inserted at.
OwnKey(path) ==
    \A q \in DOMAIN ragHist.inserted : getKey(q) = getKey(path) => q = path

\* C23: the trend recorded with a price inserted at a path compares the
\* inserted price with its predecessor at that path (above +1% 'up', below
\* -1% 'down', otherwise 'stable'), and search(path, {trend: t}) returns
\* exactly the retained values whose recorded trend is t.
C23_TrendOfInsertedPrice ==
    /\ \A path \in DOMAIN ragHist.inserted :
           OwnKey(path) =>
               LET historicalData == ragData[getKey(path)] IN
               \A i \in 2..Len(historicalData) :
                   (/\ isPriceData(historicalData[i].data)
                    /\ isPriceData(historicalData[i - 1].data))
                   => historicalData[i].metadata.trend =
                          calculateTrend(
                              <<historicalData[i - 1].data.averagePrice,
                                historicalData[i].data.averagePrice>>)
    /\ (/\ ragOut.op = "search" /\ ragOut.query.given
        /\ ragOut.query.trend # "" /\ ragOut.seen = ragHist.count)
       => LET historicalData == DataGet(ragData, getKey(ragOut.path))
              kept == SelectSeq(historicalData,
                                LAMBDA entry :
                                    entry.metadata.trend = ragOut.query.trend)
          IN  ragOut.results = [i \in 1..Len(kept) |-> kept[i].data]


(***************************************************************************)
(* Claims about calculateRSI, checked under SpecRSI.                       *)
(***************************************************************************)
NoDecreasingStep(prices) ==
    \A i \in 1..(Len(prices) - 1) : prices[i + 1] >= prices[i]
StrictlyDecreasing(prices) ==
    \A i \in 1..(Len(prices) - 1) : prices[i + 1] < prices[i]

\* C24: calculateRSI(prices, period) returns 50 on fewer than period + 1
\* prices; otherwise it returns 100 whenever the smoothed average loss is
\* exactly 0 (no decreasing step, a flat series included) and 0 for a
\* strictly decreasing series; the result always lies in [0, 100].
C24_RsiSaturates ==
    rsiOut.called =>
        /\ Len(rsiOut.prices) < rsiOut.period + 1 => rsiOut.value = 50
        /\ (/\ Len(rsiOut.prices) >= rsiOut.period + 1
            /\ NoDecreasingStep(rsiOut.prices)) => rsiOut.value = 100
        /\ (/\ Len(rsiOut.prices) >= rsiOut.period + 1
            /\ StrictlyDecreasing(rsiOut.prices)) => rsiOut.value = 0
        /\ rsiOut.value >= 0 /\ rsiOut.value <= 100


InsertedAfter(path) ==
    IF path \in DOMAIN ragHist'.inserted THEN ragHist'.inserted[path] ELSE << >>
InsertMadeAt(path) == Len(InsertedAfter(path)) > Len(InsertedAt(path))

\* C25: insert(path, value) changes only the list at that exact path: for
\* every other sequence of segments (a parent, a child, or one that differs
\* only in where a '.' falls) search gives, with and without a predicate,
\* the same result after the insert as before; and search changes nothing.
C25_InsertTouchesOnlyItsPath ==
    /\ [][\A path \in RagPaths :
            InsertMadeAt(path)
            => \A q \in RagPaths \ {path}, query \in Queries :
                   Search(ragData', q, query, now')
                       = Search(ragData, q, query, now)]_vars
    /\ [][ragOut' # ragOut => UNCHANGED <<ragData, ragHist>>]_vars


(***************************************************************************)
(* Claims about the mid-price cache, checked under SpecMids.               *)
(***************************************************************************)
MidsInFlight == {k \in MidCalls : priceCall[k].pc = "http"}

\* C27: the mid-price refresh is single-flight: with several
\* getCurrentPrice calls running while the cache is older than PRICE_TTL,
\* at most one 'allMids' request is in flight at any time and at most one
\* is issued per TTL window.
C27_SingleFlight ==
    /\ Cardinality(MidsInFlight) <= 1
    /\ ~midsHist.sameWindow

FailedRefresh(k) ==
    /\ priceCall[k].pc = "http"
    /\ priceCall'[k].pc = "done"
    /\ priceCall'[k].outcome = "error"

\* C28: a failed refresh neither destroys nor freshens the cache: the step
\* in which an 'allMids' request fails leaves the cached prices and the
\* time of the last update as they were, so that the call returns the price
\* the cache held and the next call tries the refresh again.
C28_FailedRefreshKeepsCache ==
    [][\A k \in MidCalls :
          FailedRefresh(k)
          => /\ cachedPrices' = cachedPrices
             /\ lastPriceUpdate' = lastPriceUpdate
             /\ priceCall'[k].ret = priceCall'[k].held]_vars


(***************************************************************************)
(* Claims about RAGManagerService.initializeData, checked under            *)
(* SpecInitialize.                                                         *)
(***************************************************************************)
\* C29: initializeData terminates and never raises: the readiness of the
\* coin directory is checked at most 6 times (maxRetries + 1), at least 2 s
\* apart, the chain of calls then returns whether or not the directory is
\* ready, and isInitialized is true only after a check that found the
\* directory ready and a run of updateRAGData.
C29_InitializeTerminates ==
    /\ [](Len(initHist.checks) <= initMaxRetries + 1)
    /\ [](\A i \in 2..Len(initHist.checks) :
            initHist.checks[i] - initHist.checks[i - 1] >= initRetryDelay)
    /\ [](initCall.pc \in {"none", "waiting", "updating", "returned"})
    /\ [](isInitialized => initHist.readySeen /\ initHist.updateRan)
    /\ <>[](initCall.pc = "returned")

\* Six checks found the directory not ready and the chain returned without
\* initializing, although the directory loaded afterwards.
C29_Witness ==
    /\ Len(initHist.checks) = initMaxRetries + 1
    /\ initCall.pc = "returned"
    /\ ~isInitialized
    /\ coinListReady


(***************************************************************************)
(* The batch-refresh in-flight flag                                        *)
(***************************************************************************)
CallEnded(k) ==
    /\ supCall[k].pc \in {"gather", "batch"}
    /\ supCall'[k].pc \in {"returned", "done"}

\* C30: the in-flight flag of batchUpdateData never stays stuck.  The flag is
\* up only while a call is past the guard; the step that ends such a call
\* (after the last batch, whatever fetches failed in it, or at the early
\* return for no missing symbol) leaves the flag down; and a call made while
\* no refresh is in flight and BATCH_COOLDOWN or more after the last refresh
\* ended passes the guard: it raises the flag and goes on to gather.
C30_FlagNeverStuck ==
    /\ [](isUpdating => InFlight # {})
    /\ [][\A k \in BatchCalls : CallEnded(k) => ~isUpdating']_vars
    /\ [][\A k \in BatchCalls :
            (/\ CallMade(k)
             /\ InFlight = {}
             /\ now - batchHist.lastRefreshEnd >= BATCH_COOLDOWN)
            => /\ supCall'[k].pc = "gather"
               /\ isUpdating']_vars

\* One call ended at the early return, one after a batch in which a price
\* fetch failed (the symbol has funding data and no price data), and a call
\* made a cooldown after that refresh ended is gathering.
C30_Witness ==
    /\ \E k \in BatchCalls : supCall[k].pc = "returned"
    /\ \E k \in BatchCalls : supCall[k].pc = "done"
    /\ \E sym \in Symbols :
           fundingCache[sym].present /\ ~priceCache[sym].present
    /\ \E k \in BatchCalls : supCall[k].pc = "gather"
    /\ now - batchHist.lastRefreshEnd >= BATCH_COOLDOWN
    /\ batchHist.lastRefreshEnd >= Epoch
    /\ isUpdating

====
